---- MODULE Spec2Model ----
(***************************************************************************)
(* State-machine model of the timetabling engine of src/ml_scheduler.py    *)
(* (class ReinforcementLearningScheduler): time-grid generation, the       *)
(* conflict ledger, faculty and room selection, session assignment and the *)
(* three passes of generate_schedule.                                      *)
(***************************************************************************)
EXTENDS Integers, Sequences, FiniteSets, TLC

(***************************************************************************)
(* Bounds of the model (sizes of the catalogs drawn in Init).              *)
(***************************************************************************)
MaxSections == 3
MaxCourses == 4
MaxFaculty == 2
MaxRooms == 3
MaxRuns == 2

(***************************************************************************)
(* Configuration constants of the program (defaults of the environment     *)
(* variables read at import time).                                         *)
(***************************************************************************)
TIME_SLOT_START_HOUR == 7
TIME_SLOT_START_MINUTE == 30
TIME_SLOT_END_HOUR == 18
TIME_SLOT_DURATION_MINUTES == 90
ONLINE_ROOM_FALLBACK_ID == -1
ONLINE_ROOM_FALLBACK_CAPACITY == 999
LUNCH_BREAK_START_HOUR == 12
LUNCH_BREAK_START_MINUTE == 0
LUNCH_BREAK_END_HOUR == 12
LUNCH_BREAK_END_MINUTE == 30
SCORE_PROGRAM_MATCH == 80
SCORE_LOAD_BASE == 50
SCORE_LOAD_STEP == 5
SCORE_SLOTS_BASE == 30
SCORE_SLOTS_STEP == 2
MAX_COURSES_PERMANENT == 10
MAX_COURSES_NON_PERM == 5

\* Python's None for an Optional[int] program_id (database ids start at 1).
None == 0

weekdays == <<"M", "T", "W", "TH", "F">>

(***************************************************************************)
(* Generic helpers: integer tuples compared as Python compares tuples, and *)
(* the stable sorts behind list.sort / sorted(reverse=True).               *)
(***************************************************************************)
Min(a, b) == IF a <= b THEN a ELSE b

Max(a, b) == IF a >= b THEN a ELSE b

LexLess(a, b) ==
    \E k \in 1..(Min(Len(a), Len(b)) + 1) :
        /\ \A i \in 1..(k - 1) : a[i] = b[i]
        /\ \/ (k <= Len(a) /\ k <= Len(b) /\ a[k] < b[k])
           \/ (k = Len(a) + 1 /\ k <= Len(b))

\* `LET x == e IN body` with e evaluated once: the value of F at the value of e.
Bind(e, F(_)) == CHOOSE r \in {F(x) : x \in {e}} : TRUE

\* seq sorted ascending by the parallel sequence of keys; equal keys keep their order.
StableSort(seq, key) ==
    Bind(<<seq, key>>, LAMBDA a :
        LET n == Len(a[1])
            rank(i) == Cardinality({j \in 1..n : LexLess(a[2][j], a[2][i]) \/ (a[2][j] = a[2][i] /\ j < i)}) + 1
        IN  [p \in 1..n |-> a[1][CHOOSE i \in 1..n : rank(i) = p]])

\* sorted(..., reverse=True): descending by key; equal keys keep their order.
StableSortReverse(seq, key) ==
    Bind(<<seq, key>>, LAMBDA a :
        LET n == Len(a[1])
            rank(i) == Cardinality({j \in 1..n : LexLess(a[2][i], a[2][j]) \/ (a[2][j] = a[2][i] /\ j < i)}) + 1
        IN  [p \in 1..n |-> a[1][CHOOSE i \in 1..n : rank(i) = p]])

\* The elements of seq at the indices I, in list order (a list comprehension with a filter).
Filter(seq, I) ==
    Bind(<<seq, I>>, LAMBDA a :
        [p \in 1..Cardinality(a[2]) |-> a[1][CHOOSE i \in a[2] : Cardinality({j \in a[2] : j < i}) = p - 1]])

(***************************************************************************)
(* Strings the code transforms are sequences of one-character strings.     *)
(***************************************************************************)
UpperChar(c) ==
    CASE c = "a" -> "A"
      [] c = "b" -> "B"
      [] c = "c" -> "C"
      [] OTHER -> c

\* str.upper()
Upper(str) == [i \in 1..Len(str) |-> UpperChar(str[i])]

\* ord() of the characters course codes are made of, for comparing codes in sort keys.
Ord(c) ==
    CASE c = "," -> 44
      [] c = "A" -> 65
      [] c = "B" -> 66
      [] c = "C" -> 67
      [] c = "a" -> 97
      [] c = "b" -> 98
      [] c = "c" -> 99

Ords(str) == [i \in 1..Len(str) |-> Ord(str[i])]

\* Python's `sub in str` on strings.
Contains(sub, str) ==
    \E k \in 0..(Len(str) - Len(sub)) : \A i \in 1..Len(sub) : str[k + i] = sub[i]

\* (x or '').strip().lower() on the free-text values the catalogs hold.
StripLower(raw) ==
    CASE raw = "Permanent" -> "permanent"
      [] raw = "Full-Time " -> "full-time"
      [] raw = "Affiliate" -> "affiliate"
      [] raw = "Affilate" -> "affilate"
      [] raw = "Part-time" -> "part-time"
      [] raw = " part time" -> "part time"
      [] raw = "Contractual" -> "contractual"
      [] raw = "Major" -> "major"
      [] raw = "MAJOR" -> "major"
      [] raw = "Minor" -> "minor"
      [] raw = "Laboratory" -> "laboratory"
      [] raw = "Lecture" -> "lecture"
      [] raw = "Online" -> "online"
      [] raw = "Field" -> "field"
      [] raw = "TBA" -> "tba"
      [] OTHER -> raw

\* x.lower() (no strip) on the same values.
Lower(raw) ==
    CASE raw = "Full-Time " -> "full-time "
      [] raw = " part time" -> " part time"
      [] OTHER -> StripLower(raw)

(***************************************************************************)
(* datetime.time values and their "%H:%M" rendering.                       *)
(***************************************************************************)
Time(h, m) == [hour |-> h, minute |-> m]

\* time.__le__
TimeLE(a, b) == a.hour < b.hour \/ (a.hour = b.hour /\ a.minute <= b.minute)

\* time(h, m) raises ValueError outside these ranges.
ValidTime(h, m) == h \in 0..23 /\ m \in 0..59

Digit(n) ==
    CASE n = 0 -> "0" [] n = 1 -> "1" [] n = 2 -> "2" [] n = 3 -> "3" [] n = 4 -> "4"
      [] n = 5 -> "5" [] n = 6 -> "6" [] n = 7 -> "7" [] n = 8 -> "8" [] n = 9 -> "9"

\* t.strftime('%H:%M')
strftime(t) == <<Digit(t.hour \div 10), Digit(t.hour % 10), ":", Digit(t.minute \div 10), Digit(t.minute % 10)>>

TimeSlot(s, e) == [start_time |-> s, end_time |-> e]

_time_slots_overlap(slot1, slot2) ==
    ~(TimeLE(slot1.end_time, slot2.start_time) \/ TimeLE(slot2.end_time, slot1.start_time))

(***************************************************************************)
(* Time grid generation: one iteration of the while loop of                *)
(* _generate_time_slots on the loop state g = [hour, minute, slots,        *)
(* status], under a configuration cfg.                                     *)
(***************************************************************************)
GridConfig(sh, sm, eh, dur, lsh, lsm, leh, lem) ==
    [start_hour |-> sh, start_minute |-> sm, end_hour |-> eh, duration |-> dur,
     lunch_start |-> Time(lsh, lsm), lunch_end |-> Time(leh, lem)]

DefaultConfig ==
    GridConfig(TIME_SLOT_START_HOUR, TIME_SLOT_START_MINUTE, TIME_SLOT_END_HOUR,
               TIME_SLOT_DURATION_MINUTES, LUNCH_BREAK_START_HOUR, LUNCH_BREAK_START_MINUTE,
               LUNCH_BREAK_END_HOUR, LUNCH_BREAK_END_MINUTE)

GridStart(c) == [hour |-> c.start_hour, minute |-> c.start_minute, slots |-> <<>>, status |-> "loop"]

\* `while m >= 60: h += 1; m -= 60`
CarryHour(h, m) == IF m >= 60 THEN h + (m \div 60) ELSE h

CarryMinute(m) == IF m >= 60 THEN m % 60 ELSE m

\* Mutant: the lunch window is not consulted.
GridIter_no_lunch(c, g) ==
    IF ~(g.hour < c.end_hour) THEN [g EXCEPT !.status = "done"]
    ELSE IF ~ValidTime(g.hour, g.minute) THEN [g EXCEPT !.status = "ValueError"]
    ELSE LET start_time == Time(g.hour, g.minute)
             end_hour == CarryHour(g.hour, g.minute + c.duration)
             end_minute == CarryMinute(g.minute + c.duration)
             end_time == Time(end_hour, end_minute)
         IN  IF ~ValidTime(end_hour, end_minute) THEN [g EXCEPT !.status = "ValueError"]
             ELSE IF end_hour >= c.end_hour THEN [g EXCEPT !.status = "done"]
             ELSE [hour |-> CarryHour(g.hour, g.minute + c.duration),
                   minute |-> CarryMinute(g.minute + c.duration),
                   slots |-> Append(g.slots, TimeSlot(start_time, end_time)),
                   status |-> "loop"]

\* Mutant: a candidate ending exactly at the end hour is kept (`>` for `>=`).
GridIter_end_inclusive(c, g) ==
    IF ~(g.hour < c.end_hour) THEN [g EXCEPT !.status = "done"]
    ELSE IF ~ValidTime(g.hour, g.minute) THEN [g EXCEPT !.status = "ValueError"]
    ELSE LET start_time == Time(g.hour, g.minute)
             end_hour == CarryHour(g.hour, g.minute + c.duration)
             end_minute == CarryMinute(g.minute + c.duration)
             end_time == Time(end_hour, end_minute)
             overlaps_lunch == ~(TimeLE(end_time, c.lunch_start) \/ TimeLE(c.lunch_end, start_time))
         IN  IF ~ValidTime(end_hour, end_minute) THEN [g EXCEPT !.status = "ValueError"]
             ELSE IF end_hour > c.end_hour \/ (end_hour = c.end_hour /\ end_minute > 0)
                  THEN [g EXCEPT !.status = "done"]
             ELSE [hour |-> CarryHour(g.hour, g.minute + c.duration),
                   minute |-> CarryMinute(g.minute + c.duration),
                   slots |-> IF overlaps_lunch THEN g.slots ELSE Append(g.slots, TimeSlot(start_time, end_time)),
                   status |-> "loop"]

GridIter(c, g) ==
    IF ~(g.hour < c.end_hour) THEN [g EXCEPT !.status = "done"]
    ELSE IF ~ValidTime(g.hour, g.minute) THEN [g EXCEPT !.status = "ValueError"]
    ELSE LET start_time == Time(g.hour, g.minute)
             end_hour == CarryHour(g.hour, g.minute + c.duration)
             end_minute == CarryMinute(g.minute + c.duration)
             end_time == Time(end_hour, end_minute)
             overlaps_lunch == ~(TimeLE(end_time, c.lunch_start) \/ TimeLE(c.lunch_end, start_time))
         IN  IF ~ValidTime(end_hour, end_minute) THEN [g EXCEPT !.status = "ValueError"]
             ELSE IF end_hour >= c.end_hour THEN [g EXCEPT !.status = "done"]
             ELSE [hour |-> CarryHour(g.hour, g.minute + c.duration),
                   minute |-> CarryMinute(g.minute + c.duration),
                   slots |-> IF overlaps_lunch THEN g.slots ELSE Append(g.slots, TimeSlot(start_time, end_time)),
                   status |-> "loop"]

RECURSIVE GridRun(_, _)
GridRun(c, g) == IF g.status = "loop" THEN GridRun(c, GridIter(c, g)) ELSE g

\* self.time_slots after _generate_time_slots (configurations with a positive duration).
_generate_time_slots(c) == GridRun(c, GridStart(c)).slots

(***************************************************************************)
(* Catalog entities (the dataclasses Room, Faculty, Course, Section,       *)
(* Program) with the attributes the engine reads.                          *)
(***************************************************************************)
Room(id, type, cap, prog) == [room_id |-> id, room_type |-> type, capacity |-> cap, program_id |-> prog]

Faculty(id, emp, spec, prog) == [faculty_id |-> id, employment_type |-> emp, specialization |-> spec, program_id |-> prog]

Course(id, code, type, year, prog) == [course_id |-> id, course_code |-> code, course_type |-> type, year_level |-> year, program_id |-> prog]

Section(id, prog, year) == [section_id |-> id, program_id |-> prog, year_level |-> year]

Program(id) == [program_id |-> id]

VARIABLES
    pc,                     \* where the caller / generate_schedule stands
    db,                     \* the database snapshot load_data reads
    cfg,                    \* the time-grid configuration of the process
    rooms, faculty, courses, sections, programs, time_slots,
    faculty_schedules, room_schedules, section_schedules,
    faculty_course_count, program_room_usage, assigned_pairs, faculty_spec_backlog,
    weekly_schedules, schedules_list,      \* locals of generate_schedule: the two outputs
    assignments, successful_assignments,   \* locals of generate_schedule
    unassigned_faculty, affiliates_specialized,
    idx,                    \* position of the running loop of generate_schedule
    grid,                   \* loop state of _generate_time_slots
    runs,                   \* number of generate_schedule calls started
    returned,               \* the values generate_schedule returned, in call order
    api                     \* the hosting service: its global scheduler and the requests in flight

vars == <<pc, db, cfg, rooms, faculty, courses, sections, programs, time_slots,
          faculty_schedules, room_schedules, section_schedules,
          faculty_course_count, program_room_usage, assigned_pairs, faculty_spec_backlog,
          weekly_schedules, schedules_list, assignments, successful_assignments,
          unassigned_faculty, affiliates_specialized, idx, grid, runs, returned, api>>

catalogVars == <<db, cfg, rooms, faculty, courses, sections, programs, time_slots>>

(***************************************************************************)
(* The run state the routines below read and update, passed as a record s  *)
(* with the names of the instance fields; s.raised records an exception    *)
(* propagating out of the routine.                                         *)
(***************************************************************************)
Env ==
    [faculty_schedules |-> faculty_schedules, room_schedules |-> room_schedules,
     section_schedules |-> section_schedules, faculty_course_count |-> faculty_course_count,
     program_room_usage |-> program_room_usage, assigned_pairs |-> assigned_pairs,
     faculty_spec_backlog |-> faculty_spec_backlog, weekly_schedules |-> weekly_schedules,
     schedules_list |-> schedules_list, raised |-> FALSE]

\* dict.get(k, 0)
Get(d, k) == IF k \in DOMAIN d THEN d[k] ELSE 0

EmptyWeek == [day \in {weekdays[i] : i \in 1..Len(weekdays)} |-> <<>>]

_time_slot_conflict(ledger, time_slot) ==
    \E i \in 1..Len(ledger) : _time_slots_overlap(time_slot, ledger[i])

\* Mutant: the faculty ledger is not consulted.
_check_conflicts_no_faculty(s, faculty_id, room_id, section_id, day, time_slot) ==
    LET found == {i \in 1..Len(rooms) : rooms[i].room_id = room_id}
        room == rooms[CHOOSE i \in found : \A j \in found : i <= j]
    IN  \/ /\ found # {}
           /\ Lower(room.room_type) # "online"
           /\ _time_slot_conflict(s.room_schedules[room_id][day], time_slot)
        \/ _time_slot_conflict(s.section_schedules[section_id][day], time_slot)

\* Mutant: the ledger of every catalog room is consulted, the online room included.
_check_conflicts_every_room(s, faculty_id, room_id, section_id, day, time_slot) ==
    LET found == {i \in 1..Len(rooms) : rooms[i].room_id = room_id}
    IN  \/ _time_slot_conflict(s.faculty_schedules[faculty_id][day], time_slot)
        \/ /\ found # {}
           /\ _time_slot_conflict(s.room_schedules[room_id][day], time_slot)
        \/ _time_slot_conflict(s.section_schedules[section_id][day], time_slot)

_check_conflicts(s, faculty_id, room_id, section_id, day, time_slot) ==
    LET found == {i \in 1..Len(rooms) : rooms[i].room_id = room_id}
        room == rooms[CHOOSE i \in found : \A j \in found : i <= j]
    IN  \/ _time_slot_conflict(s.faculty_schedules[faculty_id][day], time_slot)
        \/ /\ found # {}
           /\ Lower(room.room_type) # "online"
           /\ _time_slot_conflict(s.room_schedules[room_id][day], time_slot)
        \/ _time_slot_conflict(s.section_schedules[section_id][day], time_slot)

\* The three appends happen in this order; a room_id that is no key of
\* room_schedules raises KeyError after the faculty ledger was extended.
_add_to_schedule(s, faculty_id, room_id, section_id, day, time_slot) ==
    LET s1 == [s EXCEPT !.faculty_schedules[faculty_id][day] = Append(@, time_slot)]
    IN  IF room_id \notin DOMAIN s.room_schedules THEN [s1 EXCEPT !.raised = TRUE]
        ELSE [s1 EXCEPT !.room_schedules[room_id][day] = Append(@, time_slot),
                        !.section_schedules[section_id][day] = Append(@, time_slot)]

_get_faculty_course_limit(f) ==
    IF StripLower(f.employment_type) \in {"permanent", "full-time", "full time"} THEN MAX_COURSES_PERMANENT
    ELSE MAX_COURSES_NON_PERM

\* Mutant: a faculty whose count equals the limit still has capacity.
_has_faculty_capacity_inclusive(s, f) == Get(s.faculty_course_count, f.faculty_id) <= _get_faculty_course_limit(f)

_has_faculty_capacity(s, f) == Get(s.faculty_course_count, f.faculty_id) < _get_faculty_course_limit(f)

\* emp = 'permanent' if ... else ('affiliate' if ... else 'part-time')
EmploymentClass(f) ==
    IF StripLower(f.employment_type) \in {"permanent", "full-time", "full time"} THEN "permanent"
    ELSE IF StripLower(f.employment_type) \in {"affiliate", "affilate"} THEN "affiliate"
    ELSE "part-time"

\* bool(f.specialization) and course_code_upper in (f.specialization or '').upper()
is_specialized(f, course) ==
    f.specialization # <<>> /\ Contains(Upper(course.course_code), Upper(f.specialization))

\* course.course_code.upper() in (faculty.specialization or '').upper()
code_in_specialization(f, course) == Contains(Upper(course.course_code), Upper(f.specialization))

is_major(course) == Lower(course.course_type) = "major"

SlotsTotal(s, f) ==
    LET sched == s.faculty_schedules[f.faculty_id]
    IN  Len(sched["M"]) + Len(sched["T"]) + Len(sched["W"]) + Len(sched["TH"]) + Len(sched["F"])

score(s, f, section) ==
    (IF f.program_id = section.program_id THEN SCORE_PROGRAM_MATCH ELSE 0)
    + Max(0, SCORE_LOAD_BASE - SCORE_LOAD_STEP * Get(s.faculty_course_count, f.faculty_id))
    + Max(0, SCORE_SLOTS_BASE - SCORE_SLOTS_STEP * SlotsTotal(s, f))

\* Mutant: equal scores are ranked by ascending faculty_id.
sort_bucket_lower_id_first(s, bucket, section) ==
    StableSortReverse(bucket, [i \in 1..Len(bucket) |-> <<score(s, bucket[i], section), -bucket[i].faculty_id>>])

sort_bucket(s, bucket, section) ==
    StableSortReverse(bucket, [i \in 1..Len(bucket) |-> <<score(s, bucket[i], section), bucket[i].faculty_id>>])

\* The faculty with capacity of one employment class and one specialization outcome, ranked.
Bucket(s, course, section, emp, spec_match) ==
    sort_bucket(s, Filter(faculty, {i \in 1..Len(faculty) :
                                      /\ _has_faculty_capacity(s, faculty[i])
                                      /\ EmploymentClass(faculty[i]) = emp
                                      /\ is_specialized(faculty[i], course) = spec_match}), section)

\* `for bucket in buckets: for f in bucket: if skip: continue; return f` over the
\* concatenated buckets; [found |-> FALSE] stands for None.
FirstNotSkipped(s, course, candidates, permanent_rule) ==
    Bind(candidates, LAMBDA cands :
    Bind({i \in 1..Len(cands) :
            /\ ~(permanent_rule
                 /\ StripLower(cands[i].employment_type) \in {"permanent", "full-time", "full time"}
                 /\ ~is_specialized(cands[i], course))
            /\ ~(~is_specialized(cands[i], course) /\ Get(s.faculty_spec_backlog, cands[i].faculty_id) > 0)}, LAMBDA ok :
        IF ok = {} THEN [found |-> FALSE]
        ELSE [found |-> TRUE, f |-> cands[CHOOSE i \in ok : \A j \in ok : i <= j]]))

\* Mutant: for a minor course the backlog rule is not applied (no candidate is skipped).
_find_best_faculty_rl_no_backlog_rule(s, course, section) ==
    IF is_major(course)
    THEN FirstNotSkipped(s, course,
             Bucket(s, course, section, "permanent", TRUE) \o Bucket(s, course, section, "part-time", TRUE), TRUE)
    ELSE FirstNotSkipped([s EXCEPT !.faculty_spec_backlog = <<>>], course,
             Bucket(s, course, section, "affiliate", TRUE) \o Bucket(s, course, section, "affiliate", FALSE)
             \o Bucket(s, course, section, "part-time", TRUE) \o Bucket(s, course, section, "part-time", FALSE), FALSE)

\* Mutant: for a major course the part-time bucket is searched before the permanent one.
_find_best_faculty_rl_part_time_first(s, course, section) ==
    IF is_major(course)
    THEN FirstNotSkipped(s, course,
             Bucket(s, course, section, "part-time", TRUE) \o Bucket(s, course, section, "permanent", TRUE), TRUE)
    ELSE FirstNotSkipped(s, course,
             Bucket(s, course, section, "affiliate", TRUE) \o Bucket(s, course, section, "affiliate", FALSE)
             \o Bucket(s, course, section, "part-time", TRUE) \o Bucket(s, course, section, "part-time", FALSE), FALSE)

_find_best_faculty_rl(s, course, section) ==
    IF is_major(course)
    THEN FirstNotSkipped(s, course,
             Bucket(s, course, section, "permanent", TRUE) \o Bucket(s, course, section, "part-time", TRUE), TRUE)
    ELSE FirstNotSkipped(s, course,
             Bucket(s, course, section, "affiliate", TRUE) \o Bucket(s, course, section, "affiliate", FALSE)
             \o Bucket(s, course, section, "part-time", TRUE) \o Bucket(s, course, section, "part-time", FALSE), FALSE)

\* Mutant: laboratories are not preferred for minor courses.
RoomSortKey_no_lab_first(s, program_id, course_type, r) ==
    <<Get(Get(s.program_room_usage, program_id), r.room_id), -r.capacity, r.room_id>>

RoomSortKey(s, program_id, course_type, r) ==
    IF Lower(course_type) = "minor"
    THEN <<Get(Get(s.program_room_usage, program_id), r.room_id),
           IF Lower(r.room_type) = "laboratory" THEN 0 ELSE 1, -r.capacity, r.room_id>>
    ELSE <<Get(Get(s.program_room_usage, program_id), r.room_id), -r.capacity, r.room_id>>

\* Mutant: a major course accepts any physical room.
RoomAdmissible_any_physical(r, course_type) == Lower(r.room_type) \notin {"online", "field", "tba"}

RoomAdmissible(r, course_type) ==
    /\ Lower(r.room_type) \notin {"online", "field", "tba"}
    /\ ~(Lower(course_type) = "major" /\ Lower(r.room_type) # "laboratory")

_get_available_rooms_for_program(s, program_id, course_type) ==
    LET program_rooms == Filter(rooms, {i \in 1..Len(rooms) :
                             RoomAdmissible(rooms[i], course_type) /\ rooms[i].program_id # None
                             /\ rooms[i].program_id = program_id})
        general_rooms == Filter(rooms, {i \in 1..Len(rooms) :
                             RoomAdmissible(rooms[i], course_type) /\ rooms[i].program_id = None})
        keys(rs) == [i \in 1..Len(rs) |-> RoomSortKey(s, program_id, course_type, rs[i])]
    IN  StableSort(program_rooms, keys(program_rooms)) \o StableSort(general_rooms, keys(general_rooms))

(***************************************************************************)
(* Session Assigner.                                                       *)
(***************************************************************************)
\* Mutant: the days are searched from Monday, whatever the start index.
_find_available_time_slot_unrotated(s, faculty_id, room_id, section_id, forbidden_days, start_index) ==
    Bind(weekdays, LAMBDA rotated_days :
    Bind({c \in (1..Len(rotated_days)) \X (1..Len(time_slots)) :
            /\ rotated_days[c[1]] \notin forbidden_days
            /\ ~_check_conflicts(s, faculty_id, room_id, section_id, rotated_days[c[1]], time_slots[c[2]])}, LAMBDA free :
        IF free = {} THEN [found |-> FALSE]
        ELSE Bind(CHOOSE c \in free : \A d \in free : c[1] < d[1] \/ (c[1] = d[1] /\ c[2] <= d[2]), LAMBDA first :
                 [found |-> TRUE, day |-> rotated_days[first[1]], time_slot |-> time_slots[first[2]]])))

\* The first (day, slot) without conflict, days rotated to start at start_index;
\* [found |-> FALSE] stands for (None, None).
_find_available_time_slot(s, faculty_id, room_id, section_id, forbidden_days, start_index) ==
    Bind(SubSeq(weekdays, start_index + 1, Len(weekdays)) \o SubSeq(weekdays, 1, start_index), LAMBDA rotated_days :
    Bind({c \in (1..Len(rotated_days)) \X (1..Len(time_slots)) :
            /\ rotated_days[c[1]] \notin forbidden_days
            /\ ~_check_conflicts(s, faculty_id, room_id, section_id, rotated_days[c[1]], time_slots[c[2]])}, LAMBDA free :
        IF free = {} THEN [found |-> FALSE]
        ELSE Bind(CHOOSE c \in free : \A d \in free : c[1] < d[1] \/ (c[1] = d[1] /\ c[2] <= d[2]), LAMBDA first :
                 [found |-> TRUE, day |-> rotated_days[first[1]], time_slot |-> time_slots[first[2]]])))

WeeklyEntry(course, room, time_slot, delivery_mode) ==
    [course_code |-> course.course_code, room_id |-> room.room_id,
     time_start |-> strftime(time_slot.start_time), time_end |-> strftime(time_slot.end_time),
     delivery_mode |-> delivery_mode,
     session_type |-> IF Lower(room.room_type) = "laboratory" THEN "lab" ELSE "lecture",
     course_type |-> course.course_type, year_level |-> course.year_level]

ScheduleEntry(course, section, f, room, day, time_slot, delivery_mode) ==
    [course_code |-> course.course_code, course_id |-> course.course_id,
     section_id |-> section.section_id, faculty_id |-> f.faculty_id, room_id |-> room.room_id,
     time_start |-> strftime(time_slot.start_time), time_end |-> strftime(time_slot.end_time),
     days |-> day, delivery_mode |-> delivery_mode]

\* Mutant: the slot is committed to the ledgers but the session is written
\* neither to the weekly grid nor to the flat list.
_assign_session_rl_unlisted(s, course, section, f, room, delivery_mode, forbidden_days) ==
    LET mode_offset == IF delivery_mode = "Face-to-face" THEN 0 ELSE 3
        start_index == (section.section_id + course.course_id + mode_offset) % Len(weekdays)
        Place(got) ==
            IF ~got.found THEN [s |-> s, success |-> FALSE, day |-> "None"]
            ELSE Bind(_add_to_schedule(s, f.faculty_id, room.room_id, section.section_id, got.day, got.time_slot),
                      LAMBDA s1 : IF s1.raised THEN [s |-> s1, success |-> FALSE, day |-> "None"]
                                  ELSE [s |-> s1, success |-> TRUE, day |-> got.day])
    IN  Bind(_find_available_time_slot(s, f.faculty_id, room.room_id, section.section_id, forbidden_days, start_index), Place)

\* Returns [s, success, day]; s.raised when _add_to_schedule raised.
_assign_session_rl(s, course, section, f, room, delivery_mode, forbidden_days) ==
    LET mode_offset == IF delivery_mode = "Face-to-face" THEN 0 ELSE 3
        start_index == (section.section_id + course.course_id + mode_offset) % Len(weekdays)
        session_type == IF delivery_mode = "Face-to-face" THEN "face_to_face" ELSE "online"
        Record(got, s1) ==
            [s1 EXCEPT !.weekly_schedules[section.section_id].weekly_schedule[got.day][session_type] =
                            Append(@, WeeklyEntry(course, room, got.time_slot, delivery_mode)),
                       !.schedules_list =
                            Append(@, ScheduleEntry(course, section, f, room, got.day, got.time_slot, delivery_mode))]
        Place(got) ==
            IF ~got.found THEN [s |-> s, success |-> FALSE, day |-> "None"]
            ELSE Bind(_add_to_schedule(s, f.faculty_id, room.room_id, section.section_id, got.day, got.time_slot),
                      LAMBDA s1 : IF s1.raised THEN [s |-> s1, success |-> FALSE, day |-> "None"]
                                  ELSE [s |-> Record(got, s1), success |-> TRUE, day |-> got.day])
    IN  Bind(_find_available_time_slot(s, f.faculty_id, room.room_id, section.section_id, forbidden_days, start_index), Place)

\* next((r for r in self.rooms if r.room_type.lower() == 'online'), None), or the fallback room.
OnlineRoom(section) ==
    LET online == {i \in 1..Len(rooms) : Lower(rooms[i].room_type) = "online"}
    IN  IF online # {} THEN rooms[CHOOSE i \in online : \A j \in online : i <= j]
        ELSE Room(ONLINE_ROOM_FALLBACK_ID, "Online", ONLINE_ROOM_FALLBACK_CAPACITY, section.program_id)

\* The Face-to-face attempt over the candidate rooms: a failed attempt changes
\* nothing, so the winner is the first candidate for which a slot exists.
AssignFaceToFace(s, course, section, f) ==
    LET start_index == (section.section_id + course.course_id) % Len(weekdays)
        Count(candidate_room, r) ==
            IF /\ section.program_id \in DOMAIN r.s.program_room_usage
               /\ candidate_room.room_id \in DOMAIN r.s.program_room_usage[section.program_id]
            THEN [r EXCEPT !.s.program_room_usage[section.program_id][candidate_room.room_id] = @ + 1]
            ELSE r
        Try(candidate_rooms) ==
            LET ok == {i \in 1..Len(candidate_rooms) :
                         _find_available_time_slot(s, f.faculty_id, candidate_rooms[i].room_id,
                                                   section.section_id, {}, start_index).found}
            IN  IF ok = {} THEN [s |-> s, success |-> FALSE, day |-> "None"]
                ELSE Bind(candidate_rooms[CHOOSE i \in ok : \A j \in ok : i <= j],
                          LAMBDA candidate_room :
                              Bind(_assign_session_rl(s, course, section, f, candidate_room, "Face-to-face", {}),
                                   LAMBDA r : Count(candidate_room, r)))
    IN  Bind(_get_available_rooms_for_program(s, section.program_id, course.course_type), Try)

\* Mutant: a completed pair is reported as a success but is neither counted
\* for the faculty nor added to assigned_pairs.
_assign_course_sessions_rl_uncounted(s, course, section, f) ==
    LET pair_key == <<section.section_id, course.course_id>>
        Finish(f2f, online) ==
            IF ~(f2f.success /\ online.success) THEN [s |-> online.s, ok |-> FALSE]
            ELSE [s |-> online.s, ok |-> TRUE]
        Online(f2f) ==
            Bind(_assign_session_rl(f2f.s, course, section, f, OnlineRoom(section), "Online",
                                    IF f2f.success THEN {f2f.day} ELSE {}),
                 LAMBDA online : Finish(f2f, online))
    IN  IF pair_key \in s.assigned_pairs THEN [s |-> s, ok |-> FALSE]
        ELSE Bind(AssignFaceToFace(s, course, section, f), Online)

\* Mutant: the pair is committed as soon as one of the two sessions is placed.
_assign_course_sessions_rl_commits_partial(s, course, section, f) ==
    LET pair_key == <<section.section_id, course.course_id>>
        Finish(f2f, online) ==
            LET s3 == [online.s EXCEPT !.faculty_course_count[f.faculty_id] = Get(online.s.faculty_course_count, f.faculty_id) + 1,
                                       !.assigned_pairs = @ \cup {pair_key}]
            IN  IF ~(f2f.success \/ online.success) THEN [s |-> online.s, ok |-> FALSE]
                ELSE IF code_in_specialization(f, course) /\ Get(online.s.faculty_spec_backlog, f.faculty_id) > 0
                THEN [s |-> [s3 EXCEPT !.faculty_spec_backlog[f.faculty_id] = @ - 1], ok |-> TRUE]
                ELSE [s |-> s3, ok |-> TRUE]
        Online(f2f) ==
            Bind(_assign_session_rl(f2f.s, course, section, f, OnlineRoom(section), "Online",
                                    IF f2f.success THEN {f2f.day} ELSE {}),
                 LAMBDA online : Finish(f2f, online))
    IN  IF pair_key \in s.assigned_pairs THEN [s |-> s, ok |-> FALSE]
        ELSE Bind(AssignFaceToFace(s, course, section, f), Online)

\* Mutant: the room usage is counted only when the pair is completed.
_assign_course_sessions_rl_usage_on_completion(s, course, section, f) ==
    LET pair_key == <<section.section_id, course.course_id>>
        Finish(f2f, online) ==
            LET s3 == [online.s EXCEPT !.faculty_course_count[f.faculty_id] = Get(online.s.faculty_course_count, f.faculty_id) + 1,
                                       !.assigned_pairs = @ \cup {pair_key}]
            IN  IF ~(f2f.success /\ online.success)
                THEN [s |-> [online.s EXCEPT !.program_room_usage = s.program_room_usage], ok |-> FALSE]
                ELSE IF code_in_specialization(f, course) /\ Get(online.s.faculty_spec_backlog, f.faculty_id) > 0
                THEN [s |-> [s3 EXCEPT !.faculty_spec_backlog[f.faculty_id] = @ - 1], ok |-> TRUE]
                ELSE [s |-> s3, ok |-> TRUE]
        Online(f2f) ==
            Bind(_assign_session_rl(f2f.s, course, section, f, OnlineRoom(section), "Online",
                                    IF f2f.success THEN {f2f.day} ELSE {}),
                 LAMBDA online : Finish(f2f, online))
    IN  IF pair_key \in s.assigned_pairs THEN [s |-> s, ok |-> FALSE]
        ELSE Bind(AssignFaceToFace(s, course, section, f), Online)

\* Returns [s, ok]: ok is the routine's return value, s.raised an exception leaving it.
_assign_course_sessions_rl(s, course, section, f) ==
    LET pair_key == <<section.section_id, course.course_id>>
        Finish(f2f, online) ==
            LET s3 == [online.s EXCEPT !.faculty_course_count[f.faculty_id] = Get(online.s.faculty_course_count, f.faculty_id) + 1,
                                       !.assigned_pairs = @ \cup {pair_key}]
            IN  IF ~(f2f.success /\ online.success) THEN [s |-> online.s, ok |-> FALSE]
                ELSE IF code_in_specialization(f, course) /\ Get(online.s.faculty_spec_backlog, f.faculty_id) > 0
                THEN [s |-> [s3 EXCEPT !.faculty_spec_backlog[f.faculty_id] = @ - 1], ok |-> TRUE]
                ELSE [s |-> s3, ok |-> TRUE]
        Online(f2f) ==
            Bind(_assign_session_rl(f2f.s, course, section, f, OnlineRoom(section), "Online",
                                    IF f2f.success THEN {f2f.day} ELSE {}),
                 LAMBDA online : Finish(f2f, online))
    IN  IF pair_key \in s.assigned_pairs THEN [s |-> s, ok |-> FALSE]
        ELSE Bind(AssignFaceToFace(s, course, section, f), Online)

(***************************************************************************)
(* Routines of generate_schedule.                                          *)
(***************************************************************************)
\* c is the catalog load_data has just stored in the instance.
_initialize_rl_environment(s, c) ==
    [s EXCEPT
       !.faculty_schedules = [id \in {c.faculty[i].faculty_id : i \in 1..Len(c.faculty)} |-> EmptyWeek],
       !.faculty_course_count = [id \in {c.faculty[i].faculty_id : i \in 1..Len(c.faculty)} |-> 0],
       !.faculty_spec_backlog = [id \in {c.faculty[i].faculty_id : i \in 1..Len(c.faculty)} |-> 0],
       !.room_schedules = [id \in {c.rooms[i].room_id : i \in 1..Len(c.rooms)} |-> EmptyWeek],
       !.section_schedules = [id \in {c.sections[i].section_id : i \in 1..Len(c.sections)} |-> EmptyWeek],
       !.program_room_usage =
           [p \in {c.programs[i].program_id : i \in 1..Len(c.programs)} |->
              [id \in {c.rooms[i].room_id : i \in {j \in 1..Len(c.rooms) :
                          /\ Lower(c.rooms[j].room_type) \notin {"online", "field", "tba"}
                          /\ (c.rooms[j].program_id = None \/ c.rooms[j].program_id = p)}} |-> 0]],
       !.assigned_pairs = {}]

\* Mutant: the room-usage counters survive the reset.
_reset_environment_keeps_usage(s) ==
    [s EXCEPT
       !.faculty_schedules = [id \in DOMAIN s.faculty_schedules |-> EmptyWeek],
       !.faculty_course_count = [id \in (DOMAIN s.faculty_course_count) \cup (DOMAIN s.faculty_schedules) |->
                                    IF id \in DOMAIN s.faculty_schedules THEN 0 ELSE s.faculty_course_count[id]],
       !.room_schedules = [id \in DOMAIN s.room_schedules |-> EmptyWeek],
       !.section_schedules = [id \in DOMAIN s.section_schedules |-> EmptyWeek],
       !.assigned_pairs = {},
       !.faculty_spec_backlog = [id \in (DOMAIN s.faculty_spec_backlog) \cup {faculty[i].faculty_id : i \in 1..Len(faculty)} |->
                                    IF id \in {faculty[i].faculty_id : i \in 1..Len(faculty)} THEN 0
                                    ELSE s.faculty_spec_backlog[id]]]

_reset_environment(s) ==
    [s EXCEPT
       !.faculty_schedules = [id \in DOMAIN s.faculty_schedules |-> EmptyWeek],
       !.faculty_course_count = [id \in (DOMAIN s.faculty_course_count) \cup (DOMAIN s.faculty_schedules) |->
                                    IF id \in DOMAIN s.faculty_schedules THEN 0 ELSE s.faculty_course_count[id]],
       !.room_schedules = [id \in DOMAIN s.room_schedules |-> EmptyWeek],
       !.section_schedules = [id \in DOMAIN s.section_schedules |-> EmptyWeek],
       !.program_room_usage = [p \in DOMAIN s.program_room_usage |->
                                 [id \in DOMAIN s.program_room_usage[p] |-> 0]],
       !.assigned_pairs = {},
       !.faculty_spec_backlog = [id \in (DOMAIN s.faculty_spec_backlog) \cup {faculty[i].faculty_id : i \in 1..Len(faculty)} |->
                                    IF id \in {faculty[i].faculty_id : i \in 1..Len(faculty)} THEN 0
                                    ELSE s.faculty_spec_backlog[id]]]

_create_weekly_schedule_structure ==
    [id \in {sections[i].section_id : i \in 1..Len(sections)} |->
       LET section == sections[CHOOSE i \in 1..Len(sections) : sections[i].section_id = id]
       IN  [year_level |-> section.year_level, program_id |-> section.program_id,
            weekly_schedule |-> [day \in DOMAIN EmptyWeek |-> [face_to_face |-> <<>>, online |-> <<>>]]]]

\* for section in xs: for course in ys: if program and year level match: append((section, course))
CrossJoin(xs, ys) ==
    Bind(<<xs, ys>>, LAMBDA a :
        Bind([k \in 1..(Len(a[1]) * Len(a[2])) |->
                 [section |-> a[1][((k - 1) \div Len(a[2])) + 1], course |-> a[2][((k - 1) % Len(a[2])) + 1]]],
             LAMBDA all : Filter(all, {k \in 1..Len(all) :
                                         /\ all[k].course.program_id = all[k].section.program_id
                                         /\ all[k].course.year_level = all[k].section.year_level})))

AssignmentKey(a) ==
    <<IF is_major(a.course) THEN 0 ELSE 1, a.course.year_level, a.section.program_id>> \o Ords(a.course.course_code)

\* The assignment list of the section list ss and the course list cs.
AssignmentsOf(ss, cs) ==
    Bind(CrossJoin(ss, cs),
         LAMBDA all : StableSort(all, [k \in 1..Len(all) |-> AssignmentKey(all[k])]))

BuildAssignments == AssignmentsOf(sections, courses)

PairKey(a) == <<a.section.section_id, a.course.course_id>>

\* Mutant: the rule does not keep affiliates from major courses.
EmploymentAllows_affiliate_majors(f, course) ==
    /\ ~(EmploymentClass(f) = "permanent" /\ ~is_major(course))
    /\ ~(EmploymentClass(f) = "part-time" /\ is_major(course)
         /\ ~(f.specialization # <<>> /\ code_in_specialization(f, course)))

\* The employment / course-type rule as the backlog count and the first backfill apply it.
EmploymentAllows(f, course) ==
    /\ ~(EmploymentClass(f) = "permanent" /\ ~is_major(course))
    /\ ~(EmploymentClass(f) = "affiliate" /\ is_major(course))
    /\ ~(EmploymentClass(f) = "part-time" /\ is_major(course)
         /\ ~(f.specialization # <<>> /\ code_in_specialization(f, course)))

ComputeBacklog(s, asg) ==
    [id \in {faculty[i].faculty_id : i \in 1..Len(faculty)} |->
       LET f == faculty[CHOOSE i \in 1..Len(faculty) : faculty[i].faculty_id = id]
       IN  IF Upper(f.specialization) = <<>> THEN 0
           ELSE Cardinality({k \in 1..Len(asg) :
                               /\ PairKey(asg[k]) \notin s.assigned_pairs
                               /\ EmploymentAllows(f, asg[k].course)
                               /\ code_in_specialization(f, asg[k].course)
                               /\ asg[k].course.program_id = asg[k].section.program_id
                               /\ asg[k].course.year_level = asg[k].section.year_level})]

\* One iteration of the primary loop, on the pair a: [s, ok].
PrimaryAttempt(s, a) ==
    IF PairKey(a) \in s.assigned_pairs THEN [s |-> s, ok |-> FALSE]
    ELSE Bind(_find_best_faculty_rl(s, a.course, a.section),
              LAMBDA best_faculty : IF ~best_faculty.found THEN [s |-> s, ok |-> FALSE]
                                    ELSE _assign_course_sessions_rl(s, a.course, a.section, best_faculty.f))

\* The pool a faculty without courses is offered in the first backfill.
BackfillPool(s, f, asg) ==
    LET all == CrossJoin(sections, courses)
        matching == Filter(all, {k \in 1..Len(all) :
                                   /\ PairKey(all[k]) \notin s.assigned_pairs
                                   /\ EmploymentAllows(f, all[k].course)
                                   /\ f.specialization # <<>>
                                   /\ code_in_specialization(f, all[k].course)})
    IN  IF matching # <<>> THEN matching ELSE asg

\* `for section, course in pool:` from position k, with its continue / break rules.
RECURSIVE BackfillLoop(_, _, _, _)
BackfillLoop(s, f, pool, k) ==
    IF k > Len(pool) THEN s
    ELSE IF PairKey(pool[k]) \in s.assigned_pairs THEN BackfillLoop(s, f, pool, k + 1)
    ELSE IF ~EmploymentAllows(f, pool[k].course) THEN BackfillLoop(s, f, pool, k + 1)
    ELSE IF ~_has_faculty_capacity(s, f) THEN s
    ELSE Bind(_assign_course_sessions_rl(s, pool[k].course, pool[k].section, f),
              LAMBDA r : IF r.s.raised \/ r.ok THEN r.s ELSE BackfillLoop(r.s, f, pool, k + 1))

BackfillFaculty(s, f, asg) == Bind(BackfillPool(s, f, asg), LAMBDA pool : BackfillLoop(s, f, pool, 1))

\* The (section, course) pairs in the order the second backfill scans them.
SpecScanOrder ==
    LET ss == StableSort(sections, [i \in 1..Len(sections) |->
                  <<sections[i].program_id, sections[i].year_level, sections[i].section_id>>])
        cs == StableSort(courses, [i \in 1..Len(courses) |->
                  <<courses[i].year_level, courses[i].program_id>> \o Ords(courses[i].course_code)])
    IN  CrossJoin(ss, cs)

\* One scan of the while loop body for faculty f, from position k: [s, found].
RECURSIVE SpecScan(_, _, _, _)
SpecScan(s, f, pairs, k) ==
    IF k > Len(pairs) THEN [s |-> s, found |-> FALSE]
    ELSE IF PairKey(pairs[k]) \in s.assigned_pairs THEN SpecScan(s, f, pairs, k + 1)
    ELSE IF ~code_in_specialization(f, pairs[k].course) THEN SpecScan(s, f, pairs, k + 1)
    ELSE IF StripLower(f.employment_type) \in {"affiliate", "affilate"} /\ is_major(pairs[k].course)
         THEN SpecScan(s, f, pairs, k + 1)
    ELSE Bind(_assign_course_sessions_rl(s, pairs[k].course, pairs[k].section, f),
              LAMBDA r : IF r.s.raised THEN [s |-> r.s, found |-> FALSE]
                         ELSE IF r.ok THEN [s |-> r.s, found |-> TRUE]
                         ELSE SpecScan(r.s, f, pairs, k + 1))

(***************************************************************************)
(* The catalogs and configurations the runs are checked on: every prefix   *)
(* (within the bounds) of the entity lists of a few databases.             *)
(***************************************************************************)
ShortDay == GridConfig(7, 30, 10, 90, 12, 0, 12, 30)

Database(ss, cs, fs, rs, c) == [sections |-> ss, courses |-> cs, faculty |-> fs, rooms |-> rs, cfg |-> c]

Databases ==
    { Database(<<Section(1, 1, 1), Section(2, 1, 1), Section(3, 1, 2)>>,
               <<Course(1, <<"A">>, "Major", 1, 1), Course(2, <<"B">>, "Minor", 1, 1), Course(3, <<"C">>, "MAJOR", 1, 1), Course(4, <<"a", "b">>, "Minor", 2, 1)>>,
               <<Faculty(1, "Permanent", <<"A", ",", "C">>, 1), Faculty(2, "Affiliate", <<"b">>, 1), Faculty(3, "Part-time", <<>>, 2)>>,
               <<Room(1, "Laboratory", 30, None), Room(2, "Online", 999, None), Room(3, "Lecture", 40, 1), Room(4, "Laboratory", 35, 1)>>,
               DefaultConfig),
      Database(<<Section(1, 1, 2), Section(2, 1, 1), Section(3, 1, 1)>>,
               <<Course(1, <<"A">>, "Major", 2, 1), Course(2, <<"B">>, "Major", 1, 1), Course(3, <<"C">>, "Major", 1, 1), Course(4, <<"A", "B">>, "Minor", 1, 1)>>,
               <<Faculty(1, "Permanent", <<"a", ",", "b", ",", "c">>, 1), Faculty(2, "Full-Time ", <<>>, 1), Faculty(3, "Part-time", <<"C">>, 1)>>,
               <<Room(1, "Online", 999, None), Room(2, "Laboratory", 30, 1), Room(3, "Laboratory", 30, 2), Room(4, "Lecture", 50, None)>>,
               ShortDay),
      Database(<<Section(1, 1, 1), Section(2, 1, 1), Section(3, 2, 1)>>,
               <<Course(1, <<"A">>, "Minor", 1, 1), Course(2, <<"B">>, "Minor", 1, 1), Course(3, <<"C">>, "Minor", 1, 1), Course(4, <<"C">>, "Minor", 1, 2)>>,
               <<Faculty(1, "Affilate", <<"A", "B", "C">>, 1), Faculty(2, " part time", <<"B">>, None), Faculty(3, "Contractual", <<"A">>, 1)>>,
               <<Room(1, "Lecture", 40, None), Room(2, "Online", 999, 1), Room(3, "Laboratory", 40, None), Room(4, "TBA", 10, None)>>,
               DefaultConfig),
      Database(<<Section(1, 1, 1), Section(2, 2, 1), Section(3, 1, 1)>>,
               <<Course(1, <<"A">>, "Major", 1, 1), Course(2, <<"B">>, "Minor", 1, 2), Course(3, <<"C">>, "Minor", 1, 1), Course(4, <<"B">>, "Major", 1, 1)>>,
               <<Faculty(1, "Part-time", <<"A">>, 1), Faculty(2, "Affiliate", <<>>, 2), Faculty(3, "Permanent", <<"B">>, 1)>>,
               <<Room(1, "Online", 999, 1), Room(2, "Lecture", 30, 1), Room(3, "Laboratory", 30, 2), Room(4, "Field", 30, None)>>,
               ShortDay),
      Database(<<Section(1, 1, 1), Section(2, 1, 1), Section(3, 1, 1)>>,
               <<Course(1, <<"A">>, "Major", 1, 1), Course(2, <<"B">>, "Major", 1, 1), Course(3, <<"C">>, "Major", 1, 1), Course(4, <<"C", "A">>, "Major", 1, 1)>>,
               <<Faculty(1, "Permanent", <<"a", "b", "c", "a">>, 1), Faculty(2, "Part-time", <<>>, 1), Faculty(3, "Affiliate", <<"B">>, 1)>>,
               <<Room(1, "Laboratory", 40, 1), Room(2, "Laboratory", 30, None), Room(3, "Online", 999, None), Room(4, "Lecture", 40, None)>>,
               DefaultConfig),
      Database(<<Section(1, 1, 1), Section(2, 1, 1), Section(3, 1, 1)>>,
               <<Course(1, <<"B">>, "Minor", 1, 1), Course(2, <<"B", "B">>, "Minor", 1, 1), Course(3, <<"C">>, "Minor", 1, 1), Course(4, <<"A">>, "Major", 1, 1)>>,
               <<Faculty(1, "Affiliate", <<"b", "b">>, 1), Faculty(2, "Part-time", <<"b", "b", ",", "c">>, 1), Faculty(3, "Contractual", <<>>, 1)>>,
               <<Room(1, "Online", 999, None), Room(2, "Lecture", 40, None), Room(3, "Lecture", 30, 1), Room(4, "Laboratory", 20, None)>>,
               ShortDay),
      Database(<<Section(1, 1, 1), Section(2, 1, 1), Section(3, 1, 1)>>,
               <<Course(1, <<"A">>, "Major", 1, 1), Course(2, <<"B">>, "Minor", 1, 1), Course(3, <<"A", "C">>, "Major", 1, 1), Course(4, <<"C">>, "Minor", 1, 1)>>,
               <<Faculty(1, "Permanent", <<"a", "c">>, 1), Faculty(2, "Permanent", <<"A", "C">>, 1), Faculty(3, "Part-time", <<"b">>, 1)>>,
               <<Room(1, "Laboratory", 30, 1), Room(2, "Online", 999, None), Room(3, "Lecture", 40, None), Room(4, "Laboratory", 30, None)>>,
               DefaultConfig),
      Database(<<Section(1, 1, 1), Section(2, 1, 1), Section(3, 1, 1)>>,
               <<Course(1, <<"A">>, "Major", 1, 1), Course(2, <<"B">>, "Minor", 1, 1), Course(3, <<"C">>, "Major", 1, 1), Course(4, <<"A", "B">>, "Minor", 1, 1)>>,
               <<Faculty(1, "Part-time", <<"a", ",", "b">>, 1), Faculty(2, "Permanent", <<"A">>, 2), Faculty(3, "Affiliate", <<>>, 1)>>,
               <<Room(1, "Online", 999, None), Room(2, "Laboratory", 30, 1), Room(3, "Lecture", 30, None), Room(4, "Laboratory", 20, None)>>,
               DefaultConfig) }

Prefix(seq, n) == SubSeq(seq, 1, Min(n, Len(seq)))

Catalogs ==
    { [d EXCEPT !.sections = Prefix(@, ns), !.courses = Prefix(@, nc),
                !.faculty = Prefix(@, nf), !.rooms = Prefix(@, nr)] :
        d \in Databases, ns \in 1..MaxSections, nc \in 1..MaxCourses,
        nf \in 1..MaxFaculty, nr \in 0..MaxRooms }

(***************************************************************************)
(* Init: the instance as __init__ leaves it, before a database and a       *)
(* configuration chosen among the above.                                   *)
(***************************************************************************)
\* No hosting service around the instance.
NoService == [scheduler |-> None, connection |-> <<>>, open |-> {}, req |-> <<>>]

Constructed ==
    /\ rooms = <<>> /\ faculty = <<>> /\ courses = <<>> /\ sections = <<>>
    /\ programs = <<>> /\ time_slots = <<>>
    /\ faculty_schedules = <<>> /\ room_schedules = <<>> /\ section_schedules = <<>>
    /\ faculty_course_count = <<>> /\ program_room_usage = <<>>
    /\ assigned_pairs = {} /\ faculty_spec_backlog = <<>>
    /\ weekly_schedules = <<>> /\ schedules_list = <<>>
    /\ assignments = <<>> /\ successful_assignments = 0
    /\ unassigned_faculty = <<>> /\ affiliates_specialized = <<>>
    /\ idx = 0 /\ runs = 0 /\ returned = <<>>
    /\ api = NoService

Init ==
    /\ pc = "constructed"
    /\ \E d \in Catalogs :
         /\ db = [sections |-> d.sections, courses |-> d.courses, faculty |-> d.faculty,
                  rooms |-> d.rooms, programs |-> <<Program(1), Program(2)>>]
         /\ cfg = d.cfg
    /\ grid = GridStart(cfg)
    /\ Constructed

\* Assigns the run state s to the instance fields and the locals holding the outputs.
Store(s) ==
    /\ faculty_schedules' = s.faculty_schedules
    /\ room_schedules' = s.room_schedules
    /\ section_schedules' = s.section_schedules
    /\ faculty_course_count' = s.faculty_course_count
    /\ program_room_usage' = s.program_room_usage
    /\ assigned_pairs' = s.assigned_pairs
    /\ faculty_spec_backlog' = s.faculty_spec_backlog
    /\ weekly_schedules' = s.weekly_schedules
    /\ schedules_list' = s.schedules_list

\* load_data: the snapshot becomes the catalog, then the grid and the environment are built.
LoadData ==
    /\ pc = "constructed"
    /\ pc' = "loaded"
    /\ rooms' = db.rooms /\ faculty' = db.faculty /\ courses' = db.courses
    /\ sections' = db.sections /\ programs' = db.programs
    /\ time_slots' = _generate_time_slots(cfg)
    /\ \E s \in {_initialize_rl_environment(Env, db)} : Store(s)
    /\ UNCHANGED <<api, db, cfg, assignments, successful_assignments,
                   unassigned_faculty, affiliates_specialized, idx, grid, runs, returned>>

(***************************************************************************)
(* generate_schedule, one action per phase step.                           *)
(***************************************************************************)
Raise(s) == IF s.raised THEN "raised" ELSE pc

\* A caller invokes generate_schedule (at most `limit` calls are followed).
CallGenerate(limit) ==
    /\ pc \in {"loaded", "DONE", "raised"}
    /\ runs < limit
    /\ pc' = "RESET"
    /\ runs' = runs + 1
    /\ UNCHANGED <<api, catalogVars, faculty_schedules, room_schedules, section_schedules,
                   faculty_course_count, program_room_usage, assigned_pairs, faculty_spec_backlog,
                   weekly_schedules, schedules_list, assignments, successful_assignments,
                   unassigned_faculty, affiliates_specialized, idx, grid, returned>>

\* _reset_environment, then the empty outputs.
Reset ==
    /\ pc = "RESET"
    /\ pc' = "BUILD_ASSIGNMENT_LIST"
    /\ \E s \in {_reset_environment(Env)} :
           Store([s EXCEPT !.weekly_schedules = _create_weekly_schedule_structure, !.schedules_list = <<>>])
    /\ assignments' = <<>> /\ successful_assignments' = 0
    /\ unassigned_faculty' = <<>> /\ affiliates_specialized' = <<>> /\ idx' = 0
    /\ UNCHANGED <<api, catalogVars, grid, runs, returned>>

\* The sorted assignment list and the specialization backlog.
BuildAssignmentList ==
    /\ pc = "BUILD_ASSIGNMENT_LIST"
    /\ pc' = "PRIMARY_PASS"
    /\ \E asg \in {BuildAssignments} :
           /\ assignments' = asg
           /\ faculty_spec_backlog' = ComputeBacklog(Env, asg)
    /\ successful_assignments' = 0
    /\ idx' = 1
    /\ UNCHANGED <<api, catalogVars, faculty_schedules, room_schedules, section_schedules,
                   faculty_course_count, program_room_usage, assigned_pairs,
                   weekly_schedules, schedules_list,
                   unassigned_faculty, affiliates_specialized, grid, runs, returned>>

\* One iteration of `for section, course in assignments`.
PrimaryStep ==
    /\ pc = "PRIMARY_PASS"
    /\ idx <= Len(assignments)
    /\ \E r \in {PrimaryAttempt(Env, assignments[idx])} :
           /\ Store(r.s)
           /\ pc' = Raise(r.s)
           /\ successful_assignments' = IF r.ok THEN successful_assignments + 1 ELSE successful_assignments
    /\ idx' = idx + 1
    /\ UNCHANGED <<api, catalogVars, assignments, unassigned_faculty, affiliates_specialized, grid, runs, returned>>

\* The primary loop ends; the faculty without a course are listed.
PrimaryDone ==
    /\ pc = "PRIMARY_PASS"
    /\ idx > Len(assignments)
    /\ pc' = "BACKFILL_UNASSIGNED_FACULTY"
    /\ unassigned_faculty' = Filter(faculty, {i \in 1..Len(faculty) : Get(faculty_course_count, faculty[i].faculty_id) = 0})
    /\ idx' = 1
    /\ UNCHANGED <<api, catalogVars, faculty_schedules, room_schedules, section_schedules,
                   faculty_course_count, program_room_usage, assigned_pairs, faculty_spec_backlog,
                   weekly_schedules, schedules_list, assignments, successful_assignments,
                   affiliates_specialized, grid, runs, returned>>

\* One iteration of `for faculty in unassigned_faculty`.
BackfillStep ==
    /\ pc = "BACKFILL_UNASSIGNED_FACULTY"
    /\ idx <= Len(unassigned_faculty)
    /\ \E s \in {BackfillFaculty(Env, unassigned_faculty[idx], assignments)} :
           Store(s) /\ pc' = Raise(s)
    /\ idx' = idx + 1
    /\ UNCHANGED <<api, catalogVars, assignments, successful_assignments, unassigned_faculty,
                   affiliates_specialized, grid, runs, returned>>

\* The first backfill ends; the specialized affiliate / part-time faculty are listed by id.
BackfillDone ==
    /\ pc = "BACKFILL_UNASSIGNED_FACULTY"
    /\ idx > Len(unassigned_faculty)
    /\ pc' = "BACKFILL_SPECIALIZED_CAPACITY"
    /\ affiliates_specialized' =
         LET fs == Filter(faculty, {i \in 1..Len(faculty) :
                            /\ StripLower(faculty[i].employment_type) \in {"affiliate", "affilate", "part-time", "part time"}
                            /\ faculty[i].specialization # <<>>})
         IN  StableSort(fs, [i \in 1..Len(fs) |-> <<fs[i].faculty_id>>])
    /\ idx' = 1
    /\ UNCHANGED <<api, catalogVars, faculty_schedules, room_schedules, section_schedules,
                   faculty_course_count, program_room_usage, assigned_pairs, faculty_spec_backlog,
                   weekly_schedules, schedules_list, assignments, successful_assignments,
                   unassigned_faculty, grid, runs, returned>>

\* One test of `while self._has_faculty_capacity(faculty)` and, when it holds, one scan.
SpecFillStep ==
    /\ pc = "BACKFILL_SPECIALIZED_CAPACITY"
    /\ idx <= Len(affiliates_specialized)
    /\ IF ~_has_faculty_capacity(Env, affiliates_specialized[idx])
       THEN /\ idx' = idx + 1
            /\ UNCHANGED <<pc, faculty_schedules, room_schedules, section_schedules,
                           faculty_course_count, program_room_usage, assigned_pairs,
                           faculty_spec_backlog, weekly_schedules, schedules_list>>
       ELSE \E order \in {SpecScanOrder} :
            \E r \in {SpecScan(Env, affiliates_specialized[idx], order, 1)} :
                /\ Store(r.s)
                /\ pc' = Raise(r.s)
                /\ idx' = IF r.found THEN idx ELSE idx + 1
    /\ UNCHANGED <<api, catalogVars, assignments, successful_assignments, unassigned_faculty,
                   affiliates_specialized, grid, runs, returned>>

\* generate_schedule returns both outputs.
Return ==
    /\ pc = "BACKFILL_SPECIALIZED_CAPACITY"
    /\ idx > Len(affiliates_specialized)
    /\ pc' = "DONE"
    /\ returned' = Append(returned, [weekly_schedules |-> weekly_schedules, schedules |-> schedules_list])
    /\ UNCHANGED <<api, catalogVars, faculty_schedules, room_schedules, section_schedules,
                   faculty_course_count, program_room_usage, assigned_pairs, faculty_spec_backlog,
                   weekly_schedules, schedules_list, assignments, successful_assignments,
                   unassigned_faculty, affiliates_specialized, idx, grid, runs>>

Generate ==
    \/ Reset
    \/ BuildAssignmentList
    \/ PrimaryStep
    \/ PrimaryDone
    \/ BackfillStep
    \/ BackfillDone
    \/ SpecFillStep
    \/ Return

\* One generate_schedule call on a loaded instance.
Next ==
    \/ LoadData
    \/ CallGenerate(1)
    \/ Generate

Spec == Init /\ [][Next]_vars

\* generate_schedule is sequential code without blocking calls: once called,
\* it executes its next step as long as it has one.
SpecLive == Spec /\ WF_vars(Generate)

\* Consecutive generate_schedule calls on the same loaded instance.
NextRerun ==
    \/ LoadData
    \/ CallGenerate(MaxRuns)
    \/ Generate

SpecRerun == Init /\ [][NextRerun]_vars

(***************************************************************************)
(* The time grid generator on its own: _generate_time_slots stepped one    *)
(* loop iteration at a time, over a range of configurations.               *)
(***************************************************************************)
MaxSlots == 16

GridConfigs ==
    { GridConfig(sh, sm, eh, dur, 12, 0, 12, lem) :
        sh \in {7, 8}, sm \in {0, 30}, eh \in {12, 18}, dur \in {-30, 0, 45, 60, 90}, lem \in {30, 59} }

InitGrid ==
    /\ pc = "generate_time_slots"
    /\ cfg \in GridConfigs
    /\ grid = GridStart(cfg)
    /\ db = [sections |-> <<>>, courses |-> <<>>, faculty |-> <<>>, rooms |-> <<>>, programs |-> <<>>]
    /\ Constructed

gridFrame == <<api, db, rooms, faculty, courses, sections, programs,
               faculty_schedules, room_schedules, section_schedules,
               faculty_course_count, program_room_usage, assigned_pairs, faculty_spec_backlog,
               weekly_schedules, schedules_list, assignments, successful_assignments,
               unassigned_faculty, affiliates_specialized, idx, runs, returned>>

\* One iteration of `while current_hour < TIME_SLOT_END_HOUR` (or its exit).
GridStep ==
    /\ pc = "generate_time_slots"
    /\ grid.status = "loop"
    /\ Len(grid.slots) < MaxSlots
    /\ grid' = GridIter(cfg, grid)
    /\ time_slots' = grid'.slots
    /\ UNCHANGED <<pc, cfg, gridFrame>>

\* The loop has ended: _generate_time_slots returns.
GridReturn ==
    /\ pc = "generate_time_slots"
    /\ grid.status = "done"
    /\ pc' = "grid_done"
    /\ UNCHANGED <<cfg, grid, time_slots, gridFrame>>

\* time(h, m) raised ValueError inside the loop.
GridRaise ==
    /\ pc = "generate_time_slots"
    /\ grid.status = "ValueError"
    /\ pc' = "raised"
    /\ UNCHANGED <<cfg, grid, time_slots, gridFrame>>

NextGrid ==
    \/ GridStep
    \/ GridReturn
    \/ GridRaise

SpecGrid == InitGrid /\ [][NextGrid]_vars

(***************************************************************************)
(* Vocabulary of the properties: the recorded sessions as the flat output  *)
(* list describes them.                                                    *)
(***************************************************************************)
DigitValue(c) ==
    CASE c = "0" -> 0 [] c = "1" -> 1 [] c = "2" -> 2 [] c = "3" -> 3 [] c = "4" -> 4
      [] c = "5" -> 5 [] c = "6" -> 6 [] c = "7" -> 7 [] c = "8" -> 8 [] c = "9" -> 9

\* Minutes since midnight of an "HH:MM" value.
Minutes(hm) == (DigitValue(hm[1]) * 10 + DigitValue(hm[2])) * 60 + DigitValue(hm[4]) * 10 + DigitValue(hm[5])

SessionsOverlap(a, b) ==
    /\ a.days = b.days
    /\ Minutes(a.time_start) < Minutes(b.time_end)
    /\ Minutes(b.time_start) < Minutes(a.time_end)

\* The type (lower case) of the room a session names; the fallback room is of type online.
SessionRoomType(e) ==
    LET found == {i \in 1..Len(rooms) : rooms[i].room_id = e.room_id}
    IN  IF found = {} THEN "online" ELSE Lower(rooms[CHOOSE i \in found : TRUE].room_type)

Sessions == {schedules_list[i] : i \in 1..Len(schedules_list)}

SessionsOf(pair, mode) ==
    {i \in 1..Len(schedules_list) :
       /\ schedules_list[i].section_id = pair[1]
       /\ schedules_list[i].course_id = pair[2]
       /\ schedules_list[i].delivery_mode = mode}

CourseOf(e) == courses[CHOOSE i \in 1..Len(courses) : courses[i].course_id = e.course_id]

SectionOf(e) == sections[CHOOSE i \in 1..Len(sections) : sections[i].section_id = e.section_id]

InRun == pc \in {"BUILD_ASSIGNMENT_LIST", "PRIMARY_PASS", "BACKFILL_UNASSIGNED_FACULTY",
                 "BACKFILL_SPECIALIZED_CAPACITY", "DONE", "raised"}

(***************************************************************************)
(* C1. At every point of a run, no two recorded sessions that overlap in   *)
(* time on the same day share a faculty, a section, or a room of a type    *)
(* other than online.                                                      *)
(***************************************************************************)
C1_NoDoubleBooking ==
    \A i, j \in 1..Len(schedules_list) :
        (i < j /\ SessionsOverlap(schedules_list[i], schedules_list[j])) =>
            /\ schedules_list[i].faculty_id # schedules_list[j].faculty_id
            /\ schedules_list[i].section_id # schedules_list[j].section_id
            /\ \/ schedules_list[i].room_id # schedules_list[j].room_id
               \/ SessionRoomType(schedules_list[i]) = "online"

\* Two sessions were recorded in the same slot of the same day (with different
\* faculty and sections), and two sessions of one physical room share a day.
C1_Witness ==
    /\ \E i, j \in 1..Len(schedules_list) :
           /\ i < j
           /\ SessionsOverlap(schedules_list[i], schedules_list[j])
    /\ \E i, j \in 1..Len(schedules_list) :
           /\ i < j
           /\ schedules_list[i].days = schedules_list[j].days
           /\ schedules_list[i].room_id = schedules_list[j].room_id
           /\ SessionRoomType(schedules_list[i]) # "online"

(***************************************************************************)
(* C2. When generate_schedule returns, every (section, course) pair in     *)
(* assigned_pairs has exactly one Face-to-face session and exactly one     *)
(* Online session in the output, and the two are on different days.        *)
(***************************************************************************)
C2_CompletedPairHasOneOfEach ==
    pc = "DONE" =>
        \A pair \in assigned_pairs :
            /\ Cardinality(SessionsOf(pair, "Face-to-face")) = 1
            /\ Cardinality(SessionsOf(pair, "Online")) = 1
            /\ \A i \in SessionsOf(pair, "Face-to-face"), j \in SessionsOf(pair, "Online") :
                   schedules_list[i].days # schedules_list[j].days

\* All (section, course) identifier pairs of the catalog.
AllPairs == {<<sections[i].section_id, courses[j].course_id>> : i \in 1..Len(sections), j \in 1..Len(courses)}

(***************************************************************************)
(* C3. The output of a run holds, for every (section, course) pair, either *)
(* one Face-to-face and one Online session or no session at all: a failed  *)
(* placement leaves nothing behind and a retry never adds a second session *)
(* of either mode.                                                         *)
(***************************************************************************)
C3_BothOrNeither ==
    pc = "DONE" =>
        \A pair \in AllPairs :
            \/ /\ SessionsOf(pair, "Face-to-face") = {}
               /\ SessionsOf(pair, "Online") = {}
            \/ /\ Cardinality(SessionsOf(pair, "Face-to-face")) = 1
               /\ Cardinality(SessionsOf(pair, "Online")) = 1

(***************************************************************************)
(* C4. At every point of a run, in all three passes, the course count of   *)
(* every faculty is at most the limit of its employment type (10 for       *)
(* permanent / full-time, 5 otherwise).                                    *)
(***************************************************************************)
C4_CountWithinLimit ==
    \A i \in 1..Len(faculty) :
        /\ Get(faculty_course_count, faculty[i].faculty_id) <= _get_faculty_course_limit(faculty[i])
        /\ Get(faculty_course_count, faculty[i].faculty_id) <=
               IF StripLower(faculty[i].employment_type) \in {"permanent", "full-time", "full time"} THEN 10 ELSE 5

\* A faculty of employment class k ended the run with n courses while a pair of
\* a course in its specialization stayed unassigned.
AtLimit(k, n) ==
    /\ pc = "DONE"
    /\ \E i \in 1..Len(faculty) :
           /\ EmploymentClass(faculty[i]) = k
           /\ Get(faculty_course_count, faculty[i].faculty_id) = n
           /\ \E pair \in AllPairs \ assigned_pairs :
                  \E j \in 1..Len(courses) :
                      /\ courses[j].course_id = pair[2]
                      /\ is_specialized(faculty[i], courses[j])

\* A permanent faculty stopped at 10 courses with specialized pairs left over.
C4_Witness == AtLimit("permanent", 10)

\* An affiliate stopped at 5 courses with specialized pairs left over.
C4_WitnessNonPermanent == AtLimit("affiliate", 5)

(***************************************************************************)
(* C5. As stated: no session of a course of type major, in any delivery    *)
(* mode, is recorded in a room whose type is not laboratory.               *)
(***************************************************************************)
C5_MajorOnlyInLaboratory ==
    \A e \in Sessions : is_major(CourseOf(e)) => SessionRoomType(e) = "laboratory"

(***************************************************************************)
(* C5 as the code has it: no Face-to-face session of a major course is     *)
(* recorded in a room whose type is not laboratory, and the Online session *)
(* of a major course is recorded in the room of type online.               *)
(***************************************************************************)
C5_MajorFaceToFaceInLaboratory ==
    \A e \in Sessions :
        is_major(CourseOf(e)) =>
            /\ e.delivery_mode = "Face-to-face" => SessionRoomType(e) = "laboratory"
            /\ e.delivery_mode = "Online" => SessionRoomType(e) = "online"

\* A major course has its Face-to-face session in a laboratory and its Online
\* session in the online room, while a lecture room owned by the program of the
\* section (preferred to any general room) is in the catalog.
C5_Witness ==
    \E e, o \in Sessions :
        /\ is_major(CourseOf(e))
        /\ e.delivery_mode = "Face-to-face" /\ SessionRoomType(e) = "laboratory"
        /\ o.delivery_mode = "Online" /\ SessionRoomType(o) = "online"
        /\ o.course_id = e.course_id /\ o.section_id = e.section_id
        /\ \E i \in 1..Len(rooms) :
               /\ Lower(rooms[i].room_type) = "lecture"
               /\ rooms[i].program_id = SectionOf(e).program_id

\* The catalog record of the room a session names (the fallback room is in no catalog).
RoomOf(e) == rooms[CHOOSE i \in 1..Len(rooms) : rooms[i].room_id = e.room_id]

(***************************************************************************)
(* C6. No session of a section in program B is ever placed in a room whose *)
(* owning program is A with A different from B (so a pair whose only rooms *)
(* belong to another program has no session and stays outside              *)
(* assigned_pairs).                                                        *)
(***************************************************************************)
C6_NoRoomOfAnotherProgram ==
    \A e \in Sessions :
        (\E i \in 1..Len(rooms) : rooms[i].room_id = e.room_id) =>
            \/ RoomOf(e).program_id = None
            \/ RoomOf(e).program_id = SectionOf(e).program_id

Days == {weekdays[i] : i \in 1..Len(weekdays)}

\* The sessions recorded in room room_id on day d in mode mode.
SessionsIn(room_id, d, mode) ==
    {k \in 1..Len(schedules_list) :
       /\ schedules_list[k].room_id = room_id
       /\ schedules_list[k].days = d
       /\ schedules_list[k].delivery_mode = mode}

(***************************************************************************)
(* C7. Placing an Online session never adds an entry to the ledger of a    *)
(* room whose type is not online (the ledger of such a room holds exactly  *)
(* one entry per Face-to-face session recorded in it, and no Online        *)
(* session names it), and no room ledger blocks an Online placement: the   *)
(* conflict check for the online room is decided by the faculty and        *)
(* section ledgers alone.                                                  *)
(***************************************************************************)
C7_OnlineIgnoresRoomLedgers ==
    /\ \A i \in 1..Len(rooms) :
           Lower(rooms[i].room_type) # "online" =>
               \A d \in Days :
                   /\ Len(room_schedules[rooms[i].room_id][d])
                          = Cardinality(SessionsIn(rooms[i].room_id, d, "Face-to-face"))
                   /\ SessionsIn(rooms[i].room_id, d, "Online") = {}
    /\ \A i \in 1..Len(faculty), j \in 1..Len(sections), d \in Days, t \in 1..Len(time_slots) :
           _check_conflicts(Env, faculty[i].faculty_id, OnlineRoom(sections[j]).room_id,
                            sections[j].section_id, d, time_slots[t])
               <=> \/ _time_slot_conflict(faculty_schedules[faculty[i].faculty_id][d], time_slots[t])
                   \/ _time_slot_conflict(section_schedules[sections[j].section_id][d], time_slots[t])

\* Two Online sessions of different sections and different faculty are recorded
\* in the online room on the same day and slot.
C7_Witness ==
    \E a, b \in Sessions :
        /\ a.delivery_mode = "Online" /\ b.delivery_mode = "Online"
        /\ a.section_id # b.section_id /\ a.faculty_id # b.faculty_id
        /\ a.room_id = b.room_id /\ a.days = b.days
        /\ a.time_start = b.time_start /\ a.time_end = b.time_end
        /\ \E i \in 1..Len(rooms) : rooms[i].room_id = a.room_id /\ Lower(rooms[i].room_type) = "online"
        /\ Len(room_schedules[a.room_id][a.days]) >= 2

NoOnlineRoom == \A i \in 1..Len(rooms) : Lower(rooms[i].room_type) # "online"

(***************************************************************************)
(* C8. When the catalog contains no room of type online, the Online        *)
(* session of a pair is placed in the synthetic fallback room (id -1) and  *)
(* committed like any other session, and generate_schedule completes       *)
(* without raising.                                                        *)
(***************************************************************************)
C8_FallbackRoomCommits ==
    NoOnlineRoom =>
        /\ pc # "raised"
        /\ \A e \in Sessions : e.delivery_mode = "Online" => e.room_id = ONLINE_ROOM_FALLBACK_ID
        /\ pc = "DONE" =>
               \A i \in 1..Len(assignments) :
                   (\E k \in SessionsOf(PairKey(assignments[i]), "Face-to-face") : TRUE) =>
                       PairKey(assignments[i]) \in assigned_pairs

(***************************************************************************)
(* C9. Two consecutive calls of generate_schedule on the same instance     *)
(* with an unchanged catalog return identical schedules and                *)
(* weekly_schedules, and the reset at the start of a run leaves every      *)
(* ledger empty, every course count, room-usage counter and backlog at 0   *)
(* and assigned_pairs empty.                                               *)
(***************************************************************************)
C9_RerunReturnsTheSame ==
    /\ \A m, n \in 1..Len(returned) : returned[m] = returned[n]
    /\ pc = "BUILD_ASSIGNMENT_LIST" =>
           /\ \A id \in DOMAIN faculty_schedules, d \in Days : faculty_schedules[id][d] = <<>>
           /\ \A id \in DOMAIN room_schedules, d \in Days : room_schedules[id][d] = <<>>
           /\ \A id \in DOMAIN section_schedules, d \in Days : section_schedules[id][d] = <<>>
           /\ \A id \in DOMAIN faculty_course_count : faculty_course_count[id] = 0
           /\ \A p \in DOMAIN program_room_usage :
                  \A id \in DOMAIN program_room_usage[p] : program_room_usage[p][id] = 0
           /\ \A id \in DOMAIN faculty_spec_backlog : faculty_spec_backlog[id] = 0
           /\ assigned_pairs = {}
           /\ schedules_list = <<>>

\* The second call returned, after a first call that had left sessions in two
\* different physical rooms, usage counters and course counts behind.
C9_Witness ==
    /\ Len(returned) = 2
    /\ pc = "DONE"
    /\ \E a, b \in 1..Len(returned[1].schedules) :
           /\ returned[1].schedules[a].delivery_mode = "Face-to-face"
           /\ returned[1].schedules[b].delivery_mode = "Face-to-face"
           /\ returned[1].schedules[a].room_id # returned[1].schedules[b].room_id
    /\ assigned_pairs # {}

\* The grid the claim lists: 07:30-09:00, 09:00-10:30, 10:30-12:00, 13:30-15:00, 15:00-16:30.
ListedGrid ==
    <<TimeSlot(Time(7, 30), Time(9, 0)), TimeSlot(Time(9, 0), Time(10, 30)),
      TimeSlot(Time(10, 30), Time(12, 0)), TimeSlot(Time(13, 30), Time(15, 0)),
      TimeSlot(Time(15, 0), Time(16, 30))>>

DefaultGridDone == pc = "grid_done" /\ cfg = DefaultConfig

(***************************************************************************)
(* C10. As stated: with start 07:30, end hour 18, duration 90 and lunch    *)
(* 12:00-12:30 the time grid is the five listed slots and its final count  *)
(* is 6 slots.                                                             *)
(***************************************************************************)
C10_GridOfSixSlots ==
    DefaultGridDone => (time_slots = ListedGrid /\ Len(time_slots) = 6)

(***************************************************************************)
(* C10 as the code has it: with start 07:30, end hour 18, duration 90 and  *)
(* lunch 12:00-12:30 the time grid is the five listed slots (the           *)
(* 12:00-13:30 candidate skipped: the loop stands at 13:30 with three      *)
(* slots; the 16:30-18:00 candidate excluded: the loop ends at 16:30) and  *)
(* its final count is 5 slots.                                             *)
(***************************************************************************)
C10_GridOfFiveSlots ==
    /\ DefaultGridDone =>
           /\ time_slots = ListedGrid
           /\ Len(time_slots) = 5
           /\ grid.hour = 16 /\ grid.minute = 30
    /\ (cfg = DefaultConfig /\ pc = "generate_time_slots" /\ grid.hour = 13 /\ grid.minute = 30) =>
           Len(grid.slots) = 3

\* The generator returned for the default configuration, with a last slot ending at 16:30.
C10_Witness ==
    /\ DefaultGridDone
    /\ Len(time_slots) > 0
    /\ time_slots[Len(time_slots)].end_time = Time(16, 30)

\* a earlier than b, strictly.
TimeLT(a, b) == TimeLE(a, b) /\ a # b

(***************************************************************************)
(* C11. For every configuration with a positive slot duration, the         *)
(* generated time grid is in strictly increasing chronological order, its  *)
(* slots are pairwise non-overlapping, no slot overlaps the lunch window   *)
(* under the half-open overlap test, and no slot ends at or after the      *)
(* configured end hour.                                                    *)
(***************************************************************************)
C11_GridWellFormed ==
    cfg.duration > 0 =>
        /\ \A i, j \in 1..Len(time_slots) :
               i < j => /\ TimeLT(time_slots[i].start_time, time_slots[j].start_time)
                        /\ TimeLE(time_slots[i].end_time, time_slots[j].start_time)
                        /\ ~_time_slots_overlap(time_slots[i], time_slots[j])
        /\ \A i \in 1..Len(time_slots) :
               /\ TimeLT(time_slots[i].start_time, time_slots[i].end_time)
               /\ ~_time_slots_overlap(time_slots[i], TimeSlot(cfg.lunch_start, cfg.lunch_end))
               /\ TimeLT(time_slots[i].end_time, Time(cfg.end_hour, 0))

\* The generator returned a grid with slots on both sides of the lunch window,
\* separated by a gap where a candidate was skipped.
C11_Witness ==
    /\ pc = "grid_done"
    /\ cfg.duration > 0
    /\ \E i \in 1..(Len(time_slots) - 1) :
           /\ TimeLE(time_slots[i].end_time, cfg.lunch_start)
           /\ TimeLE(cfg.lunch_end, time_slots[i + 1].start_time)
           /\ time_slots[i].end_time # time_slots[i + 1].start_time

\* The catalog of the scenario: one section of year 1, two major courses of its
\* program and year, one permanent faculty whose specialization contains both
\* course codes, two laboratory rooms and at most an online room besides.
TwoMajorsScenario ==
    /\ Len(sections) = 1 /\ sections[1].year_level = 1
    /\ Len(courses) = 2
    /\ \A j \in 1..2 : /\ is_major(courses[j])
                       /\ courses[j].program_id = sections[1].program_id
                       /\ courses[j].year_level = 1
    /\ Len(faculty) = 1
    /\ EmploymentClass(faculty[1]) = "permanent"
    /\ \A j \in 1..2 : is_specialized(faculty[1], courses[j])
    /\ Cardinality({i \in 1..Len(rooms) : Lower(rooms[i].room_type) = "laboratory"}) = 2
    /\ \A i \in 1..Len(rooms) : Lower(rooms[i].room_type) \in {"laboratory", "online"}

\* Both pairs completed by the faculty, each with one Face-to-face session in a
\* laboratory and one Online session, the four sessions in four distinct cells.
TwoMajorsOutcome ==
    /\ assigned_pairs = AllPairs
    /\ Get(faculty_course_count, faculty[1].faculty_id) = 2
    /\ Len(schedules_list) = 4
    /\ \A pair \in AllPairs :
           /\ Cardinality(SessionsOf(pair, "Face-to-face")) = 1
           /\ Cardinality(SessionsOf(pair, "Online")) = 1
           /\ \A k \in SessionsOf(pair, "Face-to-face") : SessionRoomType(schedules_list[k]) = "laboratory"
    /\ \A a, b \in 1..Len(schedules_list) :
           a # b => <<schedules_list[a].days, schedules_list[a].time_start>>
                        # <<schedules_list[b].days, schedules_list[b].time_start>>

(***************************************************************************)
(* C12. In the scenario of one year-1 section, two major courses, one      *)
(* permanent faculty specialized in both and two laboratory rooms, whether *)
(* or not the catalog has an online room, the run ends (without raising)   *)
(* with both pairs in assigned_pairs, the faculty's count equal to 2, each *)
(* pair with one Face-to-face session in a laboratory and one Online       *)
(* session, the four sessions in four distinct (day, slot) cells.          *)
(***************************************************************************)
C12_TwoMajorsBothAssigned ==
    TwoMajorsScenario =>
        /\ pc # "raised"
        /\ pc = "DONE" => TwoMajorsOutcome

\* The part of C12 the code meets: the outcome when the catalog has a room of type online.
TwoMajorsWithOnlineRoom ==
    (TwoMajorsScenario /\ ~NoOnlineRoom) =>
        /\ pc # "raised"
        /\ pc = "DONE" => TwoMajorsOutcome

\* The scenario with an online room ran to the end.
TwoMajorsWithOnlineRoomDone == TwoMajorsScenario /\ ~NoOnlineRoom /\ pc = "DONE"

(***************************************************************************)
(* C13. When generate_schedule returns, every faculty member of the        *)
(* catalog has at least one assigned course.                               *)
(***************************************************************************)
C13_EveryFacultyAssigned ==
    pc = "DONE" => \A i \in 1..Len(faculty) : Get(faculty_course_count, faculty[i].faculty_id) >= 1

(***************************************************************************)
(* The hosting service (src/api_server.py): handler threads serving        *)
(* GET /api/schedules share the module-level `scheduler`.  A scheduler     *)
(* object and a connection are named by the request that created them.     *)
(* Each action is one step of a handler between two points where the       *)
(* interpreter may switch threads.                                         *)
(***************************************************************************)
MaxRequests == 2

Requests == 1..MaxRequests

engineVars == <<pc, catalogVars, faculty_schedules, room_schedules, section_schedules,
                faculty_course_count, program_room_usage, assigned_pairs, faculty_spec_backlog,
                weekly_schedules, schedules_list, assignments, successful_assignments,
                unassigned_faculty, affiliates_specialized, idx, grid, runs, returned>>

\* A request not yet received: no local scheduler, no cursor.
NewRequest == [pc |-> "received", scheduler |-> None, cursor |-> None]

InitApi ==
    /\ pc = "serving"
    /\ cfg = DefaultConfig
    /\ grid = GridStart(cfg)
    /\ db = [sections |-> <<>>, courses |-> <<>>, faculty |-> <<>>, rooms |-> <<>>, programs |-> <<>>]
    /\ rooms = <<>> /\ faculty = <<>> /\ courses = <<>> /\ sections = <<>>
    /\ programs = <<>> /\ time_slots = <<>>
    /\ faculty_schedules = <<>> /\ room_schedules = <<>> /\ section_schedules = <<>>
    /\ faculty_course_count = <<>> /\ program_room_usage = <<>>
    /\ assigned_pairs = {} /\ faculty_spec_backlog = <<>>
    /\ weekly_schedules = <<>> /\ schedules_list = <<>>
    /\ assignments = <<>> /\ successful_assignments = 0
    /\ unassigned_faculty = <<>> /\ affiliates_specialized = <<>>
    /\ idx = 0 /\ runs = 0 /\ returned = <<>>
    /\ api = [scheduler |-> None,
              connection |-> [o \in Requests |-> None],
              open |-> {},
              req |-> [r \in Requests |-> NewRequest]]

\* get_scheduler: `if scheduler is None`.
TestScheduler(r) ==
    /\ api.req[r].pc = "received"
    /\ api' = IF api.scheduler = None
              THEN [api EXCEPT !.req[r].pc = "create"]
              ELSE [api EXCEPT !.req[r].pc = "connect", !.req[r].scheduler = api.scheduler]
    /\ UNCHANGED engineVars

\* get_scheduler: `scheduler = ReinforcementLearningScheduler()`; `return scheduler`.
CreateScheduler(r) ==
    /\ api.req[r].pc = "create"
    /\ api' = [api EXCEPT !.scheduler = r, !.req[r].pc = "connect", !.req[r].scheduler = r]
    /\ UNCHANGED engineVars

\* scheduler.connect_database(): self.connection = a new connection.
ConnectDatabase(r) ==
    /\ api.req[r].pc = "connect"
    /\ api' = [api EXCEPT !.connection[api.req[r].scheduler] = r,
                          !.open = @ \cup {r},
                          !.req[r].pc = "cursor"]
    /\ UNCHANGED engineVars

\* connect_database raised: the handler answers 500.
ConnectFails(r) ==
    /\ api.req[r].pc = "connect"
    /\ api' = [api EXCEPT !.req[r].pc = "error"]
    /\ UNCHANGED engineVars

\* cursor = scheduler.connection.cursor(...): raises on a closed connection.
OpenCursor(r) ==
    /\ api.req[r].pc = "cursor"
    /\ api' = IF api.connection[api.req[r].scheduler] \in api.open
              THEN [api EXCEPT !.req[r].pc = "execute",
                               !.req[r].cursor = api.connection[api.req[r].scheduler]]
              ELSE [api EXCEPT !.req[r].pc = "error"]
    /\ UNCHANGED engineVars

\* cursor.execute(...); cursor.fetchall(); cursor.close(): raises when the
\* cursor's connection was closed meanwhile.
ExecuteQuery(r) ==
    /\ api.req[r].pc = "execute"
    /\ api' = IF api.req[r].cursor \in api.open
              THEN [api EXCEPT !.req[r].pc = "close"]
              ELSE [api EXCEPT !.req[r].pc = "error"]
    /\ UNCHANGED engineVars

\* scheduler.connection.close(), then the response.
CloseConnection(r) ==
    /\ api.req[r].pc = "close"
    /\ api' = [api EXCEPT !.open = @ \ {api.connection[api.req[r].scheduler]},
                          !.req[r].pc = "done"]
    /\ UNCHANGED engineVars

get_schedules(r) ==
    \/ TestScheduler(r)
    \/ CreateScheduler(r)
    \/ ConnectDatabase(r)
    \/ ConnectFails(r)
    \/ OpenCursor(r)
    \/ ExecuteQuery(r)
    \/ CloseConnection(r)

NextApi == \E r \in Requests : get_schedules(r)

SpecApi == InitApi /\ [][NextApi]_vars

\* Request r holds a scheduler and has not answered yet.
InFlight(r) == api.req[r].pc \in {"connect", "cursor", "execute", "close"}

\* Request r has opened its connection and not yet closed it.
UsesConnection(r) == api.req[r].pc \in {"cursor", "execute", "close"}

(***************************************************************************)
(* C14. Every request handled concurrently works on its own engine         *)
(* instance: no two requests in flight hold the same scheduler object, and *)
(* while a request uses its connection, the connection is still the one of *)
(* its scheduler (not replaced), still open (not closed by another         *)
(* request), and the request's queries run on it.                          *)
(***************************************************************************)
C14_RequestsIsolated ==
    /\ \A r1, r2 \in DOMAIN api.req :
           (r1 # r2 /\ InFlight(r1) /\ InFlight(r2)) => api.req[r1].scheduler # api.req[r2].scheduler
    /\ \A r \in DOMAIN api.req :
           UsesConnection(r) =>
               /\ api.connection[api.req[r].scheduler] = r
               /\ r \in api.open
               /\ api.req[r].cursor \in {None, r}

\* The clock of the generator after one more iteration is later than now.
ClockAdvances ==
    LET next == GridIter(cfg, grid)
    IN  \/ next.status # "loop"
        \/ TimeLT(Time(grid.hour, grid.minute), Time(next.hour, next.minute))

(***************************************************************************)
(* C15. A malformed slot duration (zero or negative) is rejected at        *)
(* startup: time-grid generation does not run for it, so it generates no   *)
(* slot, never raises in the middle of loading and never loops forever.    *)
(***************************************************************************)
C15_MalformedDurationRejected ==
    cfg.duration <= 0 =>
        /\ time_slots = <<>>
        /\ pc # "raised"

\* With a zero duration the loop has appended MaxSlots copies of the same empty
\* slot, its clock still stands at the start time and one more iteration does
\* not move it.
ZeroDurationStuck ==
    /\ cfg.duration = 0
    /\ Len(time_slots) = MaxSlots
    /\ grid.status = "loop"
    /\ grid.hour = cfg.start_hour /\ grid.minute = cfg.start_minute
    /\ ~ClockAdvances

\* With a negative duration the generator raised after appending a slot that
\* ends before it starts.
NegativeDurationRaised ==
    /\ cfg.duration < 0
    /\ pc = "raised"
    /\ \E i \in 1..Len(time_slots) : TimeLT(time_slots[i].end_time, time_slots[i].start_time)

(***************************************************************************)
(* C16. The success count that a run reports (successful_assignments, the  *)
(* count of the closing log line) equals the number of (section, course)   *)
(* pairs completed during the whole run: the size of assigned_pairs at     *)
(* DONE.                                                                   *)
(***************************************************************************)
C16_SuccessCountIsPairsCompleted ==
    pc = "DONE" => successful_assignments = Cardinality(assigned_pairs)

\* The ledgers of r hold one entry more than the current ones in the cell of
\* session e, for its faculty, its section and (when in the catalog) its room.
LedgersKeep(r, e) ==
    /\ Len(r.s.faculty_schedules[e.faculty_id][e.days]) = Len(faculty_schedules[e.faculty_id][e.days]) + 1
    /\ Len(r.s.section_schedules[e.section_id][e.days]) = Len(section_schedules[e.section_id][e.days]) + 1
    /\ e.room_id \in DOMAIN room_schedules =>
           Len(r.s.room_schedules[e.room_id][e.days]) = Len(room_schedules[e.room_id][e.days]) + 1

(***************************************************************************)
(* C17. When exactly one of the two sessions of a pair is placed,          *)
(* _assign_course_sessions_rl returns failure and leaves assigned_pairs,   *)
(* faculty_course_count and faculty_spec_backlog unchanged, while the      *)
(* ledger entries committed for the placed session stay in place.  Checked *)
(* for the call on every section, course and faculty of the catalog from   *)
(* every state of a run.                                                   *)
(***************************************************************************)
C17_PartialPlacementNotCommitted ==
    InRun =>
    \A i \in 1..Len(sections), j \in 1..Len(courses), k \in 1..Len(faculty) :
        \A r \in {_assign_course_sessions_rl(Env, courses[j], sections[i], faculty[k])} :
            (~r.s.raised /\ Len(r.s.schedules_list) = Len(schedules_list) + 1) =>
                /\ ~r.ok
                /\ r.s.assigned_pairs = assigned_pairs
                /\ r.s.faculty_course_count = faculty_course_count
                /\ r.s.faculty_spec_backlog = faculty_spec_backlog
                /\ LedgersKeep(r, r.s.schedules_list[Len(r.s.schedules_list)])

\* A pair outside assigned_pairs has exactly the one session of mode `placed`
\* in the output and none of mode `failed`, and the ledger of its faculty
\* still holds an entry on the session's day.
PartialLeftover(placed, failed) ==
    /\ pc = "DONE"
    /\ \E pair \in AllPairs \ assigned_pairs :
           /\ Cardinality(SessionsOf(pair, placed)) = 1
           /\ SessionsOf(pair, failed) = {}
           /\ \A k \in SessionsOf(pair, placed) :
                  Len(faculty_schedules[schedules_list[k].faculty_id][schedules_list[k].days]) >= 1

\* The run left a pair with its Face-to-face session placed and its Online session failed.
C17_Witness == PartialLeftover("Face-to-face", "Online")

\* The run left a pair with its Online session placed and its Face-to-face session failed.
C17_WitnessOnlineOnly == PartialLeftover("Online", "Face-to-face")

\* Result r of a call for faculty fid committed exactly one slot, on day d in
\* the physical room rid: the faculty's ledger and the room's ledger grew by one
\* entry there and nowhere else, and the call returned failure.  An Online
\* session would have added a second entry to the faculty's ledger.
FaceToFaceOnly(r, fid, rid, d) ==
    /\ ~r.ok /\ ~r.s.raised
    /\ \E m \in 1..Len(rooms) : rooms[m].room_id = rid /\ Lower(rooms[m].room_type) # "online"
    /\ Len(r.s.room_schedules[rid][d]) = Len(room_schedules[rid][d]) + 1
    /\ \A d2 \in Days :
           Len(r.s.faculty_schedules[fid][d2]) = Len(faculty_schedules[fid][d2]) + (IF d2 = d THEN 1 ELSE 0)

\* The calls _assign_course_sessions_rl(sections[i], courses[j], faculty[k])
\* from the current state of a run that commit the Face-to-face slot only,
\* each with its result r and the room and the day of the slot.
PartialCalls ==
    IF ~InRun THEN {} ELSE
    UNION {Bind(_assign_course_sessions_rl(Env, courses[t[2]], sections[t[1]], faculty[t[3]]),
                LAMBDA r : {[i |-> t[1], j |-> t[2], k |-> t[3], rid |-> x[1], d |-> x[2], r |-> r] :
                              x \in {y \in (DOMAIN room_schedules) \X Days :
                                        FaceToFaceOnly(r, faculty[t[3]].faculty_id, y[1], y[2])}}) :
           t \in (1..Len(sections)) \X (1..Len(courses)) \X (1..Len(faculty))}

C18_PartialCallExists == PartialCalls # {}

\* One step of the specialized-capacity backfill that stays in the loop: either
\* the faculty under the cursor had capacity and the scan completed a pair,
\* which raises its course count by one and keeps the cursor on it, or the
\* cursor moves on and no pair was completed (no capacity, or the full scan
\* placed nothing).
SpecFillProgress ==
    (/\ pc = "BACKFILL_SPECIALIZED_CAPACITY"
     /\ pc' = "BACKFILL_SPECIALIZED_CAPACITY"
     /\ idx <= Len(affiliates_specialized)) =>
        LET f == affiliates_specialized[idx]
        IN  \/ /\ idx' = idx
               /\ _has_faculty_capacity(Env, f)
               /\ Get(faculty_course_count', f.faculty_id) = Get(faculty_course_count, f.faculty_id) + 1
               /\ Cardinality(assigned_pairs') = Cardinality(assigned_pairs) + 1
            \/ /\ idx' = idx + 1
               /\ faculty_course_count' = faculty_course_count
               /\ assigned_pairs' = assigned_pairs

(***************************************************************************)
(* C19. generate_schedule terminates on every catalog: a call that has     *)
(* started returns or raises.  In the specialized-capacity backfill every  *)
(* iteration of the while loop makes progress: a successful assignment     *)
(* raises the faculty's course count, and the loop is left when the        *)
(* capacity is exhausted or a full scan places nothing.                    *)
(***************************************************************************)
C19_GenerateTerminates ==
    /\ [][SpecFillProgress]_vars
    /\ (pc = "RESET") ~> (pc \in {"DONE", "raised"})

\* The run returned after the specialized-capacity backfill completed a pair:
\* more pairs are assigned than the primary pass counted plus the one pair per
\* faculty the first backfill can add.
C19_Witness ==
    /\ pc = "DONE"
    /\ Cardinality(assigned_pairs) > successful_assignments + Len(unassigned_faculty)

\* The phases of a run, in the order of the routine's text.
Phases ==
    <<"RESET", "BUILD_ASSIGNMENT_LIST", "PRIMARY_PASS", "BACKFILL_UNASSIGNED_FACULTY",
      "BACKFILL_SPECIALIZED_CAPACITY", "DONE">>

\* A step of a run that changes the phase changes it to the next phase.
NextPhase ==
    (pc \in {Phases[n] : n \in 1..5} /\ pc' # pc) =>
        \E n \in 1..5 : pc = Phases[n] /\ pc' = Phases[n + 1]

\* As NextPhase, except that an exception may leave the run from any phase.
NextPhaseOrRaise ==
    (pc \in {Phases[n] : n \in 1..5} /\ pc' # pc) =>
        \/ \E n \in 1..5 : pc = Phases[n] /\ pc' = Phases[n + 1]
        \/ pc' = "raised"

\* A step of the primary pass on a pair moves to the next position of the
\* unchanged assignment list: the pair at each position is attempted once.
PrimaryOnce ==
    (pc = "PRIMARY_PASS" /\ idx <= Len(assignments)) =>
        /\ idx' = idx + 1
        /\ assignments' = assignments

\* The assignment list holds no pair twice, and every major pair stands before
\* every minor pair.
AssignmentListOrdered ==
    \A i, j \in 1..Len(assignments) :
        i < j => /\ PairKey(assignments[i]) # PairKey(assignments[j])
                 /\ ~(~is_major(assignments[i].course) /\ is_major(assignments[j].course))

(***************************************************************************)
(* C20. A run goes through the phases RESET, BUILD_ASSIGNMENT_LIST,        *)
(* PRIMARY_PASS, BACKFILL_UNASSIGNED_FACULTY,                              *)
(* BACKFILL_SPECIALIZED_CAPACITY, DONE in that order, each once; the       *)
(* primary pass attempts each pair of the assignment list at most once,    *)
(* and every major pair before any minor pair.                             *)
(***************************************************************************)
C20_PhasesInOrder ==
    /\ [][NextPhase]_vars
    /\ [][PrimaryOnce]_vars
    /\ []AssignmentListOrdered

\* What holds of every run: the order of the phases up to the point where an
\* exception leaves the run, and the order of the primary pass.
C20_PhasesInOrderUnlessRaised ==
    /\ [][NextPhaseOrRaise]_vars
    /\ [][PrimaryOnce]_vars
    /\ []AssignmentListOrdered

\* A run left the sequence of phases by an exception after its primary pass had
\* started on a list of at least two pairs.
C20_RunLeftThePhases ==
    /\ pc = "raised"
    /\ Len(assignments) >= 2
    /\ idx >= 2

\* A run reached DONE over a list holding a major pair and a minor pair.
C20_MajorsAndMinorsDone ==
    /\ pc = "DONE"
    /\ \E i, j \in 1..Len(assignments) : is_major(assignments[i].course) /\ ~is_major(assignments[j].course)

\* seq in the opposite order.
Reverse(seq) == [i \in 1..Len(seq) |-> seq[Len(seq) + 1 - i]]

\* The (section_id, course_id) pairs of an assignment list, in its order.
PairKeys(asg) == [k \in 1..Len(asg) |-> PairKey(asg[k])]

(***************************************************************************)
(* C21. The order in which the primary pass attempts pairs is fully        *)
(* determined by the sort key: no two distinct pairs of the assignment     *)
(* list have equal keys, and listing the sections or the courses of the    *)
(* catalog in another order gives the same order of attempts.              *)
(***************************************************************************)
C21_OrderDeterminedByKey ==
    pc \in {"PRIMARY_PASS", "BACKFILL_UNASSIGNED_FACULTY", "BACKFILL_SPECIALIZED_CAPACITY", "DONE"} =>
        /\ \A i, j \in 1..Len(assignments) :
               i < j => AssignmentKey(assignments[i]) # AssignmentKey(assignments[j])
        /\ PairKeys(AssignmentsOf(Reverse(sections), courses)) = PairKeys(assignments)
        /\ PairKeys(AssignmentsOf(sections, Reverse(courses))) = PairKeys(assignments)

\* The list is in ascending key order: the key decides the order wherever two keys differ.
C21_SortedByKey ==
    \A i, j \in 1..Len(assignments) :
        i < j => ~LexLess(AssignmentKey(assignments[j]), AssignmentKey(assignments[i]))

\* Two sections share a course: their pairs have equal keys, and the list built
\* from the sections in the opposite order attempts them in the opposite order.
C21_TiedPairsFollowCatalogOrder ==
    /\ pc = "PRIMARY_PASS"
    /\ \E i, j \in 1..Len(assignments) :
           /\ i < j
           /\ AssignmentKey(assignments[i]) = AssignmentKey(assignments[j])
           /\ assignments[i].section.section_id # assignments[j].section.section_id
    /\ PairKeys(AssignmentsOf(Reverse(sections), courses)) # PairKeys(assignments)

\* The six buckets of the Faculty Selector for a course and a section, from the current state.
Buckets(course, section) ==
    {Bucket(Env, course, section, emp, m) : emp \in {"permanent", "affiliate", "part-time"}, m \in BOOLEAN}

\* The faculty that compete with f for the pair: with capacity, of the same
\* employment class, specialized in the course, and with the same score.
TiedWith(f, course, section) ==
    {i \in 1..Len(faculty) :
        /\ _has_faculty_capacity(Env, faculty[i])
        /\ EmploymentClass(faculty[i]) = EmploymentClass(f)
        /\ is_specialized(faculty[i], course)
        /\ score(Env, faculty[i], section) = score(Env, f, section)}

(***************************************************************************)
(* C22. Within a bucket of the Faculty Selector the candidate with the     *)
(* higher score is ranked first, and among candidates with equal score the *)
(* one with the lower faculty_id is ranked first and therefore selected.   *)
(***************************************************************************)
C22_HigherScoreThenLowerId ==
    InRun =>
        \A x \in 1..Len(sections), c \in 1..Len(courses) :
            /\ \A b \in Buckets(courses[c], sections[x]) :
                   \A i, j \in 1..Len(b) :
                       i < j => \/ score(Env, b[i], sections[x]) > score(Env, b[j], sections[x])
                                \/ /\ score(Env, b[i], sections[x]) = score(Env, b[j], sections[x])
                                   /\ b[i].faculty_id < b[j].faculty_id
            /\ \A r \in {_find_best_faculty_rl(Env, courses[c], sections[x])} :
                   (r.found /\ is_specialized(r.f, courses[c])) =>
                       \A i \in TiedWith(r.f, courses[c], sections[x]) : r.f.faculty_id <= faculty[i].faculty_id

\* What the code does: the higher score first, and among equal scores the
\* higher faculty_id first.
C22_HigherScoreThenHigherId ==
    InRun =>
        \A x \in 1..Len(sections), c \in 1..Len(courses) :
            \A b \in Buckets(courses[c], sections[x]) :
                \A i, j \in 1..Len(b) :
                    i < j => \/ score(Env, b[i], sections[x]) > score(Env, b[j], sections[x])
                             \/ /\ score(Env, b[i], sections[x]) = score(Env, b[j], sections[x])
                                /\ b[i].faculty_id > b[j].faculty_id

\* A pair is about to be attempted for which two specialized faculty of one
\* class have the same score, and the one with the higher id is selected.
C22_HigherIdSelected ==
    /\ pc = "PRIMARY_PASS" /\ idx <= Len(assignments)
    /\ \E r \in {_find_best_faculty_rl(Env, assignments[idx].course, assignments[idx].section)} :
           /\ r.found
           /\ \E i \in TiedWith(r.f, assignments[idx].course, assignments[idx].section) :
                  faculty[i].faculty_id < r.f.faculty_id

\* The faculty (as indices of the catalog) with remaining capacity, of
\* employment class emp, whose specialization outcome for the course is m.
Eligible(course, emp, m) ==
    {i \in 1..Len(faculty) :
        /\ _has_faculty_capacity(Env, faculty[i])
        /\ EmploymentClass(faculty[i]) = emp
        /\ is_specialized(faculty[i], course) = m}

\* f is ranked first among the faculty I for the section: none of them has a
\* greater (score, faculty_id).
TopRanked(f, I, section) ==
    /\ \E i \in I : faculty[i] = f
    /\ \A i \in I : ~LexLess(<<score(Env, f, section), f.faculty_id>>,
                             <<score(Env, faculty[i], section), faculty[i].faculty_id>>)

(***************************************************************************)
(* C23. For a major course _find_best_faculty_rl returns a faculty with    *)
(* remaining capacity whose specialization contains the course code: the   *)
(* top-ranked permanent one if any exists, otherwise the top-ranked        *)
(* part-time one, otherwise none; never an affiliate, never a              *)
(* non-specialized faculty.  Checked for the call on every section and     *)
(* major course of the catalog from every state of a run.                  *)
(***************************************************************************)
C23_MajorSelection ==
    InRun =>
        \A x \in 1..Len(sections), c \in {k \in 1..Len(courses) : is_major(courses[k])} :
            \A r \in {_find_best_faculty_rl(Env, courses[c], sections[x])} :
                LET P == Eligible(courses[c], "permanent", TRUE)
                    T == Eligible(courses[c], "part-time", TRUE)
                IN  /\ r.found => /\ _has_faculty_capacity(Env, r.f)
                                  /\ Contains(Upper(courses[c].course_code), Upper(r.f.specialization))
                                  /\ r.f.specialization # <<>>
                                  /\ EmploymentClass(r.f) # "affiliate"
                    /\ P # {} => r.found /\ TopRanked(r.f, P, sections[x])
                    /\ (P = {} /\ T # {}) => r.found /\ TopRanked(r.f, T, sections[x])
                    /\ (P = {} /\ T = {}) => ~r.found

\* The primary pass is about to attempt a major pair for which a permanent and
\* a part-time specialized faculty both have capacity.
C23_Witness ==
    /\ pc = "PRIMARY_PASS" /\ idx <= Len(assignments)
    /\ is_major(assignments[idx].course)
    /\ Eligible(assignments[idx].course, "permanent", TRUE) # {}
    /\ Eligible(assignments[idx].course, "part-time", TRUE) # {}

\* The primary pass is about to attempt a major pair that goes to a part-time
\* faculty, no specialized permanent having capacity.
C23_WitnessPartTime ==
    /\ pc = "PRIMARY_PASS" /\ idx <= Len(assignments)
    /\ is_major(assignments[idx].course)
    /\ Eligible(assignments[idx].course, "permanent", TRUE) = {}
    /\ _find_best_faculty_rl(Env, assignments[idx].course, assignments[idx].section).found

\* The primary pass is about to attempt a major pair for which no faculty is
\* returned although faculty with capacity exist.
C23_WitnessNone ==
    /\ pc = "PRIMARY_PASS" /\ idx <= Len(assignments)
    /\ is_major(assignments[idx].course)
    /\ ~_find_best_faculty_rl(Env, assignments[idx].course, assignments[idx].section).found
    /\ \E i \in 1..Len(faculty) : _has_faculty_capacity(Env, faculty[i])

\* The candidates for a minor course in search order: the four buckets, each in
\* rank order, without the candidates the backlog rule skips.
RECURSIVE RankOrder(_, _)
RankOrder(I, section) ==
    IF I = {} THEN <<>>
    ELSE LET top == CHOOSE i \in I : TopRanked(faculty[i], I, section)
         IN  <<faculty[top]>> \o RankOrder(I \ {top}, section)

MinorSearchOrder(course, section) ==
    RankOrder(Eligible(course, "affiliate", TRUE), section)
    \o RankOrder({i \in Eligible(course, "affiliate", FALSE) :
                    Get(faculty_spec_backlog, faculty[i].faculty_id) <= 0}, section)
    \o RankOrder(Eligible(course, "part-time", TRUE), section)
    \o RankOrder({i \in Eligible(course, "part-time", FALSE) :
                    Get(faculty_spec_backlog, faculty[i].faculty_id) <= 0}, section)

(***************************************************************************)
(* C24. For a minor course _find_best_faculty_rl returns the first         *)
(* candidate with remaining capacity in the order affiliate-specialized,   *)
(* affiliate-other, part-time-specialized, part-time-other (each bucket in *)
(* rank order), skipping every non-specialized candidate whose backlog is  *)
(* positive; it never returns a permanent faculty, and returns none when   *)
(* every candidate is skipped.  Checked for the call on every section and  *)
(* non-major course of the catalog from every state of a run.              *)
(***************************************************************************)
C24_MinorSelection ==
    InRun =>
        \A x \in 1..Len(sections), c \in {k \in 1..Len(courses) : ~is_major(courses[k])} :
            \A r \in {_find_best_faculty_rl(Env, courses[c], sections[x])} :
                \A order \in {MinorSearchOrder(courses[c], sections[x])} :
                    /\ r.found => /\ _has_faculty_capacity(Env, r.f)
                                  /\ EmploymentClass(r.f) # "permanent"
                    /\ order # <<>> => r.found /\ r.f = order[1]
                    /\ order = <<>> => ~r.found

\* The primary pass is about to attempt a minor pair for which a candidate of
\* an earlier bucket is skipped for its backlog and a later candidate is returned.
C24_Witness ==
    /\ pc = "PRIMARY_PASS" /\ idx <= Len(assignments)
    /\ ~is_major(assignments[idx].course)
    /\ \E r \in {_find_best_faculty_rl(Env, assignments[idx].course, assignments[idx].section)} :
           /\ r.found
           /\ EmploymentClass(r.f) = "part-time"
           /\ \E i \in Eligible(assignments[idx].course, "affiliate", FALSE) :
                  Get(faculty_spec_backlog, faculty[i].faculty_id) > 0

\* The primary pass is about to attempt a minor pair for which none is
\* returned: every faculty with capacity is permanent or skipped for its backlog.
C24_WitnessNone ==
    /\ pc = "PRIMARY_PASS" /\ idx <= Len(assignments)
    /\ ~is_major(assignments[idx].course)
    /\ ~_find_best_faculty_rl(Env, assignments[idx].course, assignments[idx].section).found
    /\ \E i \in 1..Len(faculty) :
           /\ _has_faculty_capacity(Env, faculty[i])
           /\ EmploymentClass(faculty[i]) # "permanent"

\* The faculty of a recorded session.
FacultyOf(e) == faculty[CHOOSE i \in 1..Len(faculty) : faculty[i].faculty_id = e.faculty_id]

(***************************************************************************)
(* C25. Every session recorded in any of the three passes respects the     *)
(* employment / course-type rule: a permanent faculty teaches only major   *)
(* courses, an affiliate only minor courses, and a part-time faculty       *)
(* teaches a major course only if the course code is contained in its      *)
(* specialization.                                                         *)
(***************************************************************************)
C25_EmploymentRule ==
    \A n \in 1..Len(schedules_list) :
        LET f == FacultyOf(schedules_list[n])
            course == CourseOf(schedules_list[n])
            major == Lower(course.course_type) = "major"
            emp == StripLower(f.employment_type)
        IN  /\ emp \in {"permanent", "full-time", "full time"} => major
            /\ emp \in {"affiliate", "affilate"} => ~major
            /\ (emp \notin {"permanent", "full-time", "full time", "affiliate", "affilate"} /\ major) =>
                   Contains(Upper(course.course_code), Upper(f.specialization))

\* A run ended in which the first backfill handled an affiliate that the primary
\* pass had left without a course, while a major pair was still unassigned: the
\* backfill did not give it that pair.
C25_Witness ==
    /\ pc = "DONE"
    /\ \E i \in 1..Len(unassigned_faculty) : EmploymentClass(unassigned_faculty[i]) = "affiliate"
    /\ \E k \in 1..Len(assignments) :
           /\ is_major(assignments[k].course)
           /\ PairKey(assignments[k]) \notin assigned_pairs

\* A run ended with a major session of a part-time faculty and a session of an affiliate.
C25_WitnessPartTimeMajor ==
    /\ pc = "DONE"
    /\ \E n \in 1..Len(schedules_list) :
           /\ EmploymentClass(FacultyOf(schedules_list[n])) = "part-time"
           /\ is_major(CourseOf(schedules_list[n]))
    /\ \E n \in 1..Len(schedules_list) : EmploymentClass(FacultyOf(schedules_list[n])) = "affiliate"

(***************************************************************************)
(* C26. Over a whole run, both backfill passes included, a permanent       *)
(* faculty is given a major course only if the course code is contained in *)
(* its specialization: a permanent faculty with an empty or non-matching   *)
(* specialization never has a session of that course.                      *)
(***************************************************************************)
C26_PermanentMajorsSpecialized ==
    \A n \in 1..Len(schedules_list) :
        LET f == FacultyOf(schedules_list[n])
            course == CourseOf(schedules_list[n])
        IN  (/\ StripLower(f.employment_type) \in {"permanent", "full-time", "full time"}
             /\ Lower(course.course_type) = "major") =>
                /\ f.specialization # <<>>
                /\ Contains(Upper(course.course_code), Upper(f.specialization))

\* The same, for the sessions recorded before the first backfill starts: there it holds.
C26_PrimaryPassOnly ==
    pc \in {"BUILD_ASSIGNMENT_LIST", "PRIMARY_PASS"} => C26_PermanentMajorsSpecialized

\* The first backfill completed a major pair for a permanent faculty whose
\* specialization does not contain the course code.
C26_BackfillGivesUnspecializedMajor ==
    /\ pc = "DONE"
    /\ \E n \in 1..Len(schedules_list) :
           /\ EmploymentClass(FacultyOf(schedules_list[n])) = "permanent"
           /\ ~is_specialized(FacultyOf(schedules_list[n]), CourseOf(schedules_list[n]))
           /\ <<schedules_list[n].section_id, schedules_list[n].course_id>> \in assigned_pairs
           /\ \E i \in 1..Len(unassigned_faculty) :
                  unassigned_faculty[i].faculty_id = schedules_list[n].faculty_id

(***************************************************************************)
(* C27. At every point of a run after the backlog is computed,             *)
(* faculty_spec_backlog[f] is the number of not-yet-assigned pairs of the  *)
(* assignment list that match f's specialization and satisfy the           *)
(* employment / course-type rule for f; in particular it is 0 once no such *)
(* pair remains, whichever faculty took those pairs.                       *)
(***************************************************************************)
C27_BacklogIsRemainingMatches ==
    pc \in {"PRIMARY_PASS", "BACKFILL_UNASSIGNED_FACULTY", "BACKFILL_SPECIALIZED_CAPACITY", "DONE"} =>
        faculty_spec_backlog = ComputeBacklog(Env, assignments)

\* What holds: the backlog never falls below the number of remaining matches and never below 0.
C27_BacklogAtLeastRemainingMatches ==
    pc \in {"PRIMARY_PASS", "BACKFILL_UNASSIGNED_FACULTY", "BACKFILL_SPECIALIZED_CAPACITY", "DONE"} =>
        \A i \in 1..Len(faculty) :
            /\ Get(faculty_spec_backlog, faculty[i].faculty_id) >= 0
            /\ Get(faculty_spec_backlog, faculty[i].faculty_id)
                   >= ComputeBacklog(Env, assignments)[faculty[i].faculty_id]

\* Every pair matching a faculty is assigned, its backlog is still positive,
\* and the primary pass is about to skip it as a candidate for that reason.
C27_StaleBacklogBlocks ==
    /\ pc = "PRIMARY_PASS" /\ idx <= Len(assignments)
    /\ PairKey(assignments[idx]) \notin assigned_pairs
    /\ \E i \in 1..Len(faculty) :
           /\ ComputeBacklog(Env, assignments)[faculty[i].faculty_id] = 0
           /\ Get(faculty_spec_backlog, faculty[i].faculty_id) > 0
           /\ _has_faculty_capacity(Env, faculty[i])
           /\ EmploymentAllows(faculty[i], assignments[idx].course)
           /\ ~_find_best_faculty_rl(Env, assignments[idx].course, assignments[idx].section).found

\* The programs and course types candidate lists are asked for.
ProgramIds == {sections[i].program_id : i \in 1..Len(sections)}

CourseTypes == {courses[i].course_type : i \in 1..Len(courses)}

\* The usage count of room r for a program in the current state.
Usage(program_id, r) ==
    IF program_id \in DOMAIN program_room_usage /\ r.room_id \in DOMAIN program_room_usage[program_id]
    THEN program_room_usage[program_id][r.room_id] ELSE 0

\* Room a may stand before room b of the same group in the candidate list for
\* the program and the course type.
RoomBefore(a, b, program_id, course_type) ==
    LET lab(r) == Lower(r.room_type) = "laboratory"
        minor == Lower(course_type) = "minor"
    IN  \/ Usage(program_id, a) < Usage(program_id, b)
        \/ /\ Usage(program_id, a) = Usage(program_id, b)
           /\ \/ minor /\ lab(a) /\ ~lab(b)
              \/ /\ minor => (lab(a) <=> lab(b))
                 /\ \/ a.capacity > b.capacity
                    \/ a.capacity = b.capacity /\ a.room_id < b.room_id

(***************************************************************************)
(* C28. The candidate list of _get_available_rooms_for_program contains no *)
(* room of type online, field or tba, no room owned by a different         *)
(* program, only laboratory rooms when the course is major, lists every    *)
(* room owned by the target program before every general room, and orders  *)
(* each group by usage count ascending, then (minors only) laboratory      *)
(* first, then capacity descending, then room_id ascending.  Checked for   *)
(* every program and course type of the catalog from every state of a run. *)
(***************************************************************************)
C28_CandidateRooms ==
    InRun =>
        \A p \in ProgramIds, t \in CourseTypes :
            \A L \in {_get_available_rooms_for_program(Env, p, t)} :
                /\ \A i \in 1..Len(L) :
                       /\ Lower(L[i].room_type) \notin {"online", "field", "tba"}
                       /\ L[i].program_id \in {None, p}
                       /\ Lower(t) = "major" => Lower(L[i].room_type) = "laboratory"
                /\ \A i, j \in 1..Len(L) :
                       i < j => /\ ~(L[i].program_id = None /\ L[j].program_id = p)
                                /\ L[i].program_id = L[j].program_id => RoomBefore(L[i], L[j], p, t)

\* Every room of the catalog that passes these tests is in the list, once.
C28_CandidateRoomsComplete ==
    InRun =>
        \A p \in ProgramIds, t \in CourseTypes :
            \A L \in {_get_available_rooms_for_program(Env, p, t)} :
                \A k \in 1..Len(rooms) :
                    Cardinality({i \in 1..Len(L) : L[i] = rooms[k]}) =
                        IF /\ Lower(rooms[k].room_type) \notin {"online", "field", "tba"}
                           /\ rooms[k].program_id \in {None, p}
                           /\ Lower(t) = "major" => Lower(rooms[k].room_type) = "laboratory"
                        THEN 1 ELSE 0

\* During a run, the list for a minor course puts a general laboratory before a
\* general lecture room of the same usage that has the lower room_id, and a room of the catalog is left out of it.
C28_Witness ==
    /\ pc = "PRIMARY_PASS"
    /\ \E p \in ProgramIds, t \in CourseTypes :
           \E L \in {_get_available_rooms_for_program(Env, p, t)} :
               /\ Len(L) < Len(rooms)
               /\ \E i, j \in 1..Len(L) :
                      /\ i < j
                      /\ Lower(L[i].room_type) = "laboratory" /\ Lower(L[j].room_type) # "laboratory"
                      /\ Usage(p, L[i]) = Usage(p, L[j])
                      /\ L[i].room_id > L[j].room_id

\* During a run, the list puts a room of the program before a general room
\* that has been used less often.
C28_WitnessProgramFirst ==
    /\ InRun
    /\ \E p \in ProgramIds, t \in CourseTypes :
           \E L \in {_get_available_rooms_for_program(Env, p, t)} :
               \E i, j \in 1..Len(L) :
                   /\ i < j
                   /\ L[i].program_id = p /\ L[j].program_id = None
                   /\ Usage(p, L[i]) > Usage(p, L[j])

\* The day at position k (from 0) of the weekdays rotated to start at index start.
RotatedDay(start, k) == weekdays[((start + k) % Len(weekdays)) + 1]

\* The indices of the slots of day d without conflict for the faculty, the room and the section.
FreeSlots(f, room, section, d) ==
    {t \in 1..Len(time_slots) :
        ~_check_conflicts(Env, f.faculty_id, room.room_id, section.section_id, d, time_slots[t])}

\* The sets of forbidden days the search is checked with, for a rotation
\* starting at index start: none for a Face-to-face session; the first day of
\* the rotation, or all days, for an Online session.
ForbiddenSets(start, mode) == IF mode = "Face-to-face" THEN {{}} ELSE {{RotatedDay(start, 0)}, Days}

\* The search, as the claim describes it, for one call and its result r.
FirstDayFirstSlot(r, course, section, f, room, mode, forb, start) ==
    \A good \in {{n \in 0..4 : /\ RotatedDay(start, n) \notin forb
                               /\ FreeSlots(f, room, section, RotatedDay(start, n)) # {}}} :
        IF good = {} THEN ~r.success /\ r.s = Env
        ELSE \A d \in {RotatedDay(start, CHOOSE i \in good : \A j \in good : i <= j)} :
             \A free \in {FreeSlots(f, room, section, d)} :
             \A t \in {CHOOSE i \in free : \A j \in free : i <= j} :
             \A e \in {r.s.schedules_list[Len(r.s.schedules_list)]} :
                 /\ r.success
                 /\ r.day = d
                 /\ Len(r.s.schedules_list) = Len(schedules_list) + 1
                 /\ e.days = d
                 /\ e.time_start = strftime(time_slots[t].start_time)
                 /\ e.time_end = strftime(time_slots[t].end_time)
                 /\ \A u \in free : ~TimeLT(time_slots[u].start_time, time_slots[t].start_time)

(***************************************************************************)
(* C29. A session is placed on the first day, in weekday order rotated to  *)
(* start at index (section_id + course_id + mode_offset) mod 5 with        *)
(* mode_offset 0 for Face-to-face and 3 for Online and with forbidden days *)
(* skipped, that has a conflict-free slot, in the chronologically first    *)
(* conflict-free slot of that day; placement fails only when no            *)
(* non-forbidden day has a conflict-free slot.  Checked for the call on    *)
(* every pair of the assignment list with every faculty and room of the    *)
(* catalog, Face-to-face with no day forbidden and Online with the first   *)
(* day of the rotation or all days forbidden, from every state of the      *)
(* three passes.                                                           *)
(***************************************************************************)
C29_FirstDayFirstSlot ==
    pc \in {"PRIMARY_PASS", "BACKFILL_UNASSIGNED_FACULTY", "BACKFILL_SPECIALIZED_CAPACITY"} =>
        \A a \in 1..Len(assignments), k \in 1..Len(faculty), m \in 1..Len(rooms) :
            \A mode \in {"Face-to-face", "Online"} :
                \A start \in {(assignments[a].section.section_id + assignments[a].course.course_id
                               + (IF mode = "Face-to-face" THEN 0 ELSE 3)) % 5} :
                    \A forb \in ForbiddenSets(start, mode) :
                        FirstDayFirstSlot(_assign_session_rl(Env, assignments[a].course, assignments[a].section,
                                                             faculty[k], rooms[m], mode, forb),
                                          assignments[a].course, assignments[a].section,
                                          faculty[k], rooms[m], mode, forb, start)

\* The start index of the rotation for a recorded session.
StartIndexOf(e) ==
    (e.section_id + e.course_id + (IF e.delivery_mode = "Face-to-face" THEN 0 ELSE 3)) % 5

\* A run recorded a session on a day other than the first of its rotation and
\* a session in a slot other than the first of the grid.
C29_Witness ==
    /\ pc = "DONE"
    /\ \E n \in 1..Len(schedules_list) :
           schedules_list[n].days # RotatedDay(StartIndexOf(schedules_list[n]), 0)
    /\ \E n \in 1..Len(schedules_list) :
           schedules_list[n].time_start # strftime(time_slots[1].start_time)

\* Faculty f is eligible for the course in the current state by every rule
\* of the Faculty Selector: it has capacity, the employment / course-type rule
\* admits it, a permanent is specialized in the course, and a non-specialized
\* faculty has no backlog.
EligibleNow(f, course) ==
    /\ _has_faculty_capacity(Env, f)
    /\ EmploymentAllows(f, course)
    /\ EmploymentClass(f) = "permanent" => is_specialized(f, course)
    /\ is_specialized(f, course) \/ Get(faculty_spec_backlog, f.faculty_id) <= 0

\* The pairs of the assignment list that are not assigned, with an eligible
\* faculty for which _assign_course_sessions_rl would place both sessions now.
StillPlaceable ==
    {c \in [a : 1..Len(assignments), k : 1..Len(faculty)] :
        /\ PairKey(assignments[c.a]) \notin assigned_pairs
        /\ EligibleNow(faculty[c.k], assignments[c.a].course)
        /\ _assign_course_sessions_rl(Env, assignments[c.a].course, assignments[c.a].section, faculty[c.k]).ok}

(***************************************************************************)
(* C30. A pair of the assignment list is left unassigned at DONE only if   *)
(* no combination of an eligible faculty with remaining capacity, an       *)
(* admissible room and a day / slot could place both of its sessions: a    *)
(* pair is never skipped while another eligible faculty could still have   *)
(* taken it.                                                               *)
(***************************************************************************)
C30_UnassignedOnlyIfUnplaceable ==
    pc = "DONE" => StillPlaceable = {}

\* A run ended with an unassigned pair for which no faculty satisfies the rules of the selector.
C30_UnassignedWithoutEligibleFaculty ==
    /\ pc = "DONE"
    /\ \E a \in 1..Len(assignments) :
           /\ PairKey(assignments[a]) \notin assigned_pairs
           /\ \A k \in 1..Len(faculty) : ~EligibleNow(faculty[k], assignments[a].course)

\* The program of the section a recorded session belongs to.
ProgramOfSession(e) == SectionOf(e).program_id

\* The Face-to-face sessions recorded so far in room room_id for sections of program p.
FaceToFaceSessions(p, room_id) ==
    {k \in 1..Len(schedules_list) :
        /\ schedules_list[k].delivery_mode = "Face-to-face"
        /\ schedules_list[k].room_id = room_id
        /\ ProgramOfSession(schedules_list[k]) = p}

\* The physical rooms usable by program p: not online / field / tba, and
\* general or owned by p.
UsableRooms(p) ==
    {rooms[i].room_id : i \in {j \in 1..Len(rooms) :
        /\ Lower(rooms[j].room_type) \notin {"online", "field", "tba"}
        /\ rooms[j].program_id \in {None, p}}}

(***************************************************************************)
(* C31. At every point of a run, for every program p of the catalog and    *)
(* every physical room r usable by p, program_room_usage[p][r] is the      *)
(* number of Face-to-face sessions recorded so far in room r for sections  *)
(* of program p, the Face-to-face sessions of pairs whose Online session   *)
(* then failed included.                                                   *)
(***************************************************************************)
C31_UsageCountsFaceToFaceSessions ==
    InRun =>
        \A i \in 1..Len(programs) :
            \A room_id \in UsableRooms(programs[i].program_id) :
                /\ programs[i].program_id \in DOMAIN program_room_usage
                /\ room_id \in DOMAIN program_room_usage[programs[i].program_id]
                /\ program_room_usage[programs[i].program_id][room_id]
                       = Cardinality(FaceToFaceSessions(programs[i].program_id, room_id))

\* A run counted a room twice for a program, and one of the counted
\* Face-to-face sessions belongs to a pair whose Online session failed.
C31_Witness ==
    /\ pc = "DONE"
    /\ \E i \in 1..Len(programs) : \E room_id \in UsableRooms(programs[i].program_id) :
           /\ program_room_usage[programs[i].program_id][room_id] >= 2
           /\ \E k \in FaceToFaceSessions(programs[i].program_id, room_id) :
                  /\ <<schedules_list[k].section_id, schedules_list[k].course_id>> \notin assigned_pairs
                  /\ \A n \in 1..Len(schedules_list) :
                         /\ schedules_list[n].section_id = schedules_list[k].section_id
                         /\ schedules_list[n].course_id = schedules_list[k].course_id
                         => n = k

\* The sessions of the flat list recorded under a key (the id of a faculty, a
\* room or a section) on day d, in the order they were recorded.
SessionsUnder(field, id, d) ==
    Filter(schedules_list, {k \in 1..Len(schedules_list) :
                               schedules_list[k][field] = id /\ schedules_list[k].days = d})

\* The sessions of the flat list of section sid on day d in a delivery mode, in order.
ListCell(sid, d, mode) ==
    Filter(schedules_list, {k \in 1..Len(schedules_list) :
                               /\ schedules_list[k].section_id = sid
                               /\ schedules_list[k].days = d
                               /\ schedules_list[k].delivery_mode = mode})

\* Entry w of the weekly grid and entry e of the flat list describe the same session.
SameSession(w, e) ==
    /\ w.course_code = e.course_code
    /\ w.room_id = e.room_id
    /\ w.time_start = e.time_start
    /\ w.time_end = e.time_end
    /\ w.delivery_mode = e.delivery_mode

\* The flat list and the weekly grid hold the same sessions: every entry of the
\* list lies in one cell of the grid, and every cell is, entry by entry, the
\* part of the list for its section, day and delivery mode.
OutputsAgree ==
    /\ \A k \in 1..Len(schedules_list) :
           /\ schedules_list[k].section_id \in DOMAIN weekly_schedules
           /\ schedules_list[k].days \in Days
           /\ schedules_list[k].delivery_mode \in {"Face-to-face", "Online"}
    /\ \A sid \in DOMAIN weekly_schedules : \A d \in Days :
           \A t \in {<<"face_to_face", "Face-to-face">>, <<"online", "Online">>} :
               \A c \in {<<weekly_schedules[sid].weekly_schedule[d][t[1]], ListCell(sid, d, t[2])>>} :
                   /\ Len(c[1]) = Len(c[2])
                   /\ \A i \in 1..Len(c[1]) : SameSession(c[1][i], c[2][i])

\* The commits of a ledger are, one for one and in order, the sessions of the
\* flat list recorded under the same key and day.
CommitsAreSessions(ledger, field) ==
    \A id \in DOMAIN ledger : \A d \in Days :
        \A c \in {<<ledger[id][d], SessionsUnder(field, id, d)>>} :
            /\ Len(c[1]) = Len(c[2])
            /\ \A i \in 1..Len(c[1]) :
                   /\ strftime(c[1][i].start_time) = c[2][i].time_start
                   /\ strftime(c[1][i].end_time) = c[2][i].time_end

LedgersAgree ==
    /\ CommitsAreSessions(faculty_schedules, "faculty_id")
    /\ CommitsAreSessions(room_schedules, "room_id")
    /\ CommitsAreSessions(section_schedules, "section_id")

(***************************************************************************)
(* C32. At every point of a run the two output forms agree: each session   *)
(* appears exactly once in the flat schedules list and exactly once in the *)
(* weekly grid, under its own section, day and delivery mode, and each     *)
(* ledger commit corresponds to exactly one such session.                  *)
(***************************************************************************)
C32_OutputsAndLedgersAgree ==
    InRun => OutputsAgree /\ LedgersAgree

\* The two output forms agree at every point of a run.
C32_OutputsAgree ==
    InRun => OutputsAgree

\* Until generate_schedule raises, every ledger commit is a recorded session.
C32_LedgersAgreeUnlessRaised ==
    InRun /\ pc # "raised" => LedgersAgree

\* A run ended by raising with a commit in a faculty's ledger that no session
\* of the outputs corresponds to, next to sessions recorded in both outputs.
C32_CommitWithoutSession ==
    /\ pc = "raised"
    /\ schedules_list # <<>>
    /\ OutputsAgree
    /\ \E id \in DOMAIN faculty_schedules : \E d \in Days :
           Len(faculty_schedules[id][d]) > Len(SessionsUnder("faculty_id", id, d))

====
